---------------------------- MODULE Spec2Model ----------------------------
(***************************************************************************)
(* A model of the rig-bedrock adapter crate: the Document Codec           *)
(* (src/rig-bedrock/src/lib.rs), the Completion Adapter                    *)
(* (src/rig-bedrock/src/completion.rs), the Embedding Adapter              *)
(* (src/rig-bedrock/src/embedding.rs) and the Content Mapper               *)
(* (src/rig-bedrock/src/types/mod.rs).                                     *)
(*                                                                         *)
(* Four independent components, each with its own specification:           *)
(*   SpecCodec       json_to_document / document_to_json on built values   *)
(*   SpecCompletion  one CompletionModel::completion call                  *)
(*   SpecEmbedding   one EmbeddingModel::embed_texts call                  *)
(*   SpecMapper      the conversions of types/mod.rs, applied in sequence  *)
(* Spec is their union (Init picks the component that runs).               *)
(***************************************************************************)
EXTENDS Integers, Sequences, FiniteSets, TLC

VARIABLES
    cpc,        \* codec: "idle", "build_json", "build_doc", "encoded", "decoded"
    cin,        \* codec: the serde_json::Value given to json_to_document (NoValue if none)
    cdoc,       \* codec: the aws_smithy_types::Document (built, or json_to_document's result)
    cout,       \* codec: document_to_json's result (NoValue before the call)
    kpc,        \* completion: "idle", "ready" (called), "sent" (awaiting send()), "done"
    kreq,       \* completion: the CompletionRequest passed in
    kout,       \* completion: the Converse request handed to send()
    kcalls,     \* completion: number of send() calls issued
    kreply,     \* completion: what send().await returned
    kres,       \* completion: the Result the call returned
    epc,        \* embedding: "idle", "ready" (called), "waiting" (awaiting send()), "done"
    edocs,      \* embedding: embed_texts' documents, collected
    eidx,       \* embedding: how many documents the iterator has yielded
    eresults,   \* embedding: the results vector
    eerrors,    \* embedding: the errors vector
    einvoked,   \* embedding: the InvokeModel requests handed to send(), in order
    ereplies,   \* embedding: what each send().await returned, in order
    eout,       \* embedding: the Result embed_texts returned
    mkind,      \* mapper: the type of the value held ("idle" if none)
    morig,      \* mapper: the value the conversions started from
    mval,       \* mapper: the Result of the last conversion (Ok(morig) at first)
    mtrace      \* mapper: the conversions applied, in order

codecVars == <<cpc, cin, cdoc, cout>>
completionVars == <<kpc, kreq, kout, kcalls, kreply, kres>>
embeddingVars == <<epc, edocs, eidx, eresults, eerrors, einvoked, ereplies, eout>>
mapperVars == <<mkind, morig, mval, mtrace>>
vars == <<codecVars, completionVars, embeddingVars, mapperVars>>
notCodec == <<completionVars, embeddingVars, mapperVars>>
notCompletion == <<codecVars, embeddingVars, mapperVars>>
notEmbedding == <<codecVars, completionVars, mapperVars>>
notMapper == <<codecVars, completionVars, embeddingVars>>

NoValue == [none |-> TRUE]

-----------------------------------------------------------------------------
(***************************************************************************)
(* 64-bit integers.  TLC's integers are 32 bits wide, so a 64-bit word is  *)
(* three limbs <<t, m, l>> of 20, 22 and 22 bits: value t*2^44 + m*2^22 + l.*)
(* A u64 is the plain value; an i64 is the same word in two's complement   *)
(* (negative iff bit 63 is set, i.e. t >= 2^19), so that `i as u64` is the *)
(* identity on the word, as in Rust.                                       *)
(***************************************************************************)
Limb == 2^22
TopLimb == 2^20
SignLimb == 2^19

IsWord(w) == /\ w \in Seq(Int) /\ Len(w) = 3
             /\ w[1] \in 0..(TopLimb - 1)
             /\ w[2] \in 0..(Limb - 1)
             /\ w[3] \in 0..(Limb - 1)

W(t, m, l) == <<t, m, l>>
Zero64 == W(0, 0, 0)
One64 == W(0, 0, 1)
I64Max == W(SignLimb - 1, Limb - 1, Limb - 1)      \* 2^63 - 1
I64Min == W(SignLimb, 0, 0)                        \* -2^63 as i64; 2^63 as u64
U64Max == W(TopLimb - 1, Limb - 1, Limb - 1)       \* 2^64 - 1 as u64; -1 as i64
MinusOne == U64Max
MinusTwo == W(TopLimb - 1, Limb - 1, Limb - 2)

\* i64 comparisons used by the code
I64IsNegative(i) == i[1] >= SignLimb
I64GtZero(i) == ~I64IsNegative(i) /\ i # Zero64          \* i > 0
\* u64 <= i64::MAX
U64FitsI64(u) == u[1] < SignLimb

\* w + 1 on limbs, wrapping at 2^64
Inc64(w) ==
    IF w[3] + 1 < Limb THEN W(w[1], w[2], w[3] + 1)
    ELSE IF w[2] + 1 < Limb THEN W(w[1], w[2] + 1, 0)
    ELSE W((w[1] + 1) % TopLimb, 0, 0)

\* two's complement negation: the magnitude of a negative i64, as a u64
Neg64(w) == Inc64(W(TopLimb - 1 - w[1], Limb - 1 - w[2], Limb - 1 - w[3]))

(***************************************************************************)
(* f64.  A float is NaN, an infinity, or a finite value (-1)^neg * sig *   *)
(* 2^exp with sig < 2^53 held on limbs; finite values are kept normalised  *)
(* (sig odd, or sig = 0 and exp = 0) so that equal values are equal        *)
(* records.                                                                *)
(***************************************************************************)
NaN == [c |-> "nan"]
PosInf == [c |-> "inf", neg |-> FALSE]
NegInf == [c |-> "inf", neg |-> TRUE]

Half64(w) == W(w[1] \div 2,
               (w[2] \div 2) + (w[1] % 2) * (Limb \div 2),
               (w[3] \div 2) + (w[2] % 2) * (Limb \div 2))

RECURSIVE Norm(_, _)
Norm(sig, exp) ==
    IF sig = Zero64 THEN [sig |-> Zero64, exp |-> 0]
    ELSE IF sig[3] % 2 = 0 THEN Norm(Half64(sig), exp + 1)
    ELSE [sig |-> sig, exp |-> exp]

Finite(neg, sig, exp) ==
    LET n == Norm(sig, exp)
    IN  [c |-> "finite", neg |-> neg, sig |-> n.sig, exp |-> n.exp]

\* f64::is_finite
is_finite(f) == f.c = "finite"

RECURSIVE BitLen(_)
BitLen(x) == IF x = 0 THEN 0 ELSE 1 + BitLen(x \div 2)

\* `u as f64`: exact below 2^53, else rounded to 53 significant bits,
\* ties to even.
U64ToF64Signed(neg, u) ==
    IF u[1] < 2^9 THEN Finite(neg, u, 0)
    ELSE LET k == BitLen(u[1]) - 9          \* bits dropped, 1..11
             p == 2^k
             q == W(u[1] \div p,
                    (u[2] \div p) + (u[1] % p) * (Limb \div p),
                    (u[3] \div p) + (u[2] % p) * (Limb \div p))
             r == u[3] % p
             up == \/ r > p \div 2
                   \/ (r = p \div 2 /\ q[3] % 2 = 1)
         IN  Finite(neg, IF up THEN Inc64(q) ELSE q, k)

U64ToF64(u) == U64ToF64Signed(FALSE, u)

\* `i as f64`
I64ToF64(i) ==
    IF I64IsNegative(i) THEN U64ToF64Signed(TRUE, Neg64(i)) ELSE U64ToF64(i)

-----------------------------------------------------------------------------
(***************************************************************************)
(* Numbers.  serde_json::Number and aws_smithy_types::Number both hold one *)
(* of PosInt(u64), NegInt(i64), Float(f64).  serde_json keeps NegInt       *)
(* negative and Float finite; aws_smithy_types documents NegInt as always  *)
(* negative but does not enforce it.                                       *)
(***************************************************************************)
PosInt(u) == [k |-> "PosInt", u |-> u]
NegInt(i) == [k |-> "NegInt", i |-> i]
Float(f) == [k |-> "Float", f |-> f]

Some(x) == [some |-> TRUE, v |-> x]
None == [some |-> FALSE]

\* serde_json::Number::as_i64
as_i64(num) ==
    CASE num.k = "PosInt" -> IF U64FitsI64(num.u) THEN Some(num.u) ELSE None
      [] num.k = "NegInt" -> Some(num.i)
      [] num.k = "Float"  -> None

\* serde_json::Number::as_f64
as_f64(num) ==
    CASE num.k = "PosInt" -> Some(U64ToF64(num.u))
      [] num.k = "NegInt" -> Some(I64ToF64(num.i))
      [] num.k = "Float"  -> Some(num.f)

\* serde_json::Number::from_f64
from_f64(f) == IF is_finite(f) THEN Some(Float(f)) ELSE None

\* serde_json::Number::from(u64), serde_json::Number::from(i64)
NumberFromU64(u) == PosInt(u)
NumberFromI64(i) == IF I64IsNegative(i) THEN NegInt(i) ELSE PosInt(i)

(***************************************************************************)
(* serde_json::Value (field t) and aws_smithy_types::Document (field d).   *)
(* An array is a sequence; an object is a function from its set of keys    *)
(* (Map and HashMap: no duplicate keys, order immaterial).                 *)
(***************************************************************************)
JNull == [t |-> "Null"]
JBool(b) == [t |-> "Bool", b |-> b]
JNumber(n) == [t |-> "Number", n |-> n]
JString(s) == [t |-> "String", s |-> s]
JArray(a) == [t |-> "Array", a |-> a]
JObject(o) == [t |-> "Object", o |-> o]

DNull == [d |-> "Null"]
DBool(b) == [d |-> "Bool", b |-> b]
DNumber(n) == [d |-> "Number", n |-> n]
DString(s) == [d |-> "String", s |-> s]
DArray(a) == [d |-> "Array", a |-> a]
DObject(o) == [d |-> "Object", o |-> o]

\* a variant of float_to_json that skips from_f64's finiteness test (what
\* C3 would not survive)
float_to_json_unchecked(number) == JNumber(Float(number))

\* lib.rs 26-31: the Float arm of document_to_json, None of from_f64 -> Null
float_to_json(number) ==
    LET n == from_f64(number)
    IN  IF n.some THEN JNumber(n.v) ELSE JNull

number_to_json(n) ==
    CASE n.k = "PosInt" -> JNumber(NumberFromU64(n.u))
      [] n.k = "NegInt" -> JNumber(NumberFromI64(n.i))
      [] n.k = "Float"  -> float_to_json(n.f)

RECURSIVE document_to_json(_)
document_to_json(doc) ==
    CASE doc.d = "Object" ->
            JObject([key \in DOMAIN doc.o |-> document_to_json(doc.o[key])])
      [] doc.d = "Array" ->
            JArray([j \in 1..Len(doc.a) |-> document_to_json(doc.a[j])])
      [] doc.d = "Number" -> number_to_json(doc.n)
      [] doc.d = "String" -> JString(doc.s)
      [] doc.d = "Bool" -> JBool(doc.b)
      [] doc.d = "Null" -> JNull

\* lib.rs 43-54: the Value::Number arm of json_to_document
number_to_document(num) ==
    LET i == as_i64(num)
        f == as_f64(num)
    IN  IF i.some
        THEN IF I64GtZero(i.v)
             THEN DNumber(PosInt(i.v))      \* i as u64
             ELSE DNumber(NegInt(i.v))
        ELSE IF f.some
             THEN DNumber(Float(f.v))
             ELSE DNull

RECURSIVE json_to_document(_)
json_to_document(value) ==
    CASE value.t = "Null" -> DNull
      [] value.t = "Bool" -> DBool(value.b)
      [] value.t = "Number" -> number_to_document(value.n)
      [] value.t = "String" -> DString(value.s)
      [] value.t = "Array" ->
            DArray([j \in 1..Len(value.a) |-> json_to_document(value.a[j])])
      [] value.t = "Object" ->
            DObject([key \in DOMAIN value.o |-> json_to_document(value.o[key])])

-----------------------------------------------------------------------------
(***************************************************************************)
(* The codec's inputs: leaves, and values nested by wrapping the value     *)
(* built so far in an array or an object, to depth MaxDepth.               *)
(***************************************************************************)
MaxDepth == 2
MaxLen == 2

Keys == {"a", "b"}

OneAndHalf == Finite(FALSE, W(0, 0, 3), -1)         \* 1.5
MinusHalf == Finite(TRUE, W(0, 0, 1), -1)           \* -0.5
OnePointZero == Finite(FALSE, W(0, 0, 1), 0)        \* 1.0

JsonNumbers ==
    { PosInt(Zero64), PosInt(One64), PosInt(I64Max), PosInt(I64Min),
      PosInt(U64Max), NegInt(MinusOne), NegInt(MinusTwo), NegInt(I64Min),
      Float(OneAndHalf), Float(MinusHalf), Float(OnePointZero) }

JsonLeaves ==
    { JNull, JBool(TRUE), JBool(FALSE), JString(""), JString("x") }
        \cup { JNumber(n) : n \in JsonNumbers }

JsonSiblings == { JString("y"), JNumber(PosInt(One64)) }

DocLeaves ==
    { DNull, DBool(TRUE), DString("x"),
      DNumber(PosInt(One64)), DNumber(PosInt(U64Max)),
      DNumber(NegInt(MinusOne)), DNumber(NegInt(Zero64)),
      DNumber(Float(OneAndHalf)), DNumber(Float(NaN)),
      DNumber(Float(PosInf)), DNumber(Float(NegInf)) }

DocSiblings == { DString("y"), DNumber(Float(NaN)) }

SetMax(S) == IF S = {} THEN 0 ELSE CHOOSE x \in S : \A y \in S : y <= x

RECURSIVE JDepth(_)
JDepth(v) ==
    CASE v.t = "Array" -> 1 + SetMax({ JDepth(v.a[j]) : j \in 1..Len(v.a) })
      [] v.t = "Object" -> 1 + SetMax({ JDepth(v.o[key]) : key \in DOMAIN v.o })
      [] OTHER -> 0

RECURSIVE DDepth(_)
DDepth(v) ==
    CASE v.d = "Array" -> 1 + SetMax({ DDepth(v.a[j]) : j \in 1..Len(v.a) })
      [] v.d = "Object" -> 1 + SetMax({ DDepth(v.o[key]) : key \in DOMAIN v.o })
      [] OTHER -> 0

\* the sequences of at most MaxLen - 1 siblings put around a wrapped value
SiblingSeqs(S) == UNION { [1..n -> S] : n \in 0..(MaxLen - 1) }

\* v at key k, siblings at the keys of rest
ObjectAround(k, v, rest) == [key \in {k} \cup DOMAIN rest |-> IF key = k THEN v ELSE rest[key]]

SiblingMaps(k, S) ==
    UNION { [ks -> S] : ks \in { x \in SUBSET (Keys \ {k}) : Cardinality(x) < MaxLen } }

IdleCodec ==
    /\ cpc = "idle"
    /\ cin = NoValue
    /\ cdoc = NoValue
    /\ cout = NoValue

IdleCompletion ==
    /\ kpc = "idle"
    /\ kreq = NoValue
    /\ kout = NoValue
    /\ kcalls = 0
    /\ kreply = NoValue
    /\ kres = NoValue

IdleEmbedding ==
    /\ epc = "idle"
    /\ edocs = <<>>
    /\ eidx = 0
    /\ eresults = <<>>
    /\ eerrors = <<>>
    /\ einvoked = <<>>
    /\ ereplies = <<>>
    /\ eout = NoValue

IdleMapper ==
    /\ mkind = "idle"
    /\ morig = NoValue
    /\ mval = NoValue
    /\ mtrace = <<>>

InitCodec ==
    /\ IdleCompletion
    /\ IdleEmbedding
    /\ IdleMapper
    /\ cout = NoValue
    /\ \/ /\ cpc = "build_json"
          /\ cin \in JsonLeaves
          /\ cdoc = NoValue
       \/ /\ cpc = "build_doc"
          /\ cin = NoValue
          /\ cdoc \in DocLeaves

WrapJsonArray ==
    /\ cpc = "build_json"
    /\ JDepth(cin) < MaxDepth
    /\ \E pre \in SiblingSeqs(JsonSiblings), post \in SiblingSeqs(JsonSiblings) :
          /\ Len(pre) + Len(post) < MaxLen
          /\ cin' = JArray(pre \o <<cin>> \o post)
    /\ UNCHANGED <<cpc, cdoc, cout, notCodec>>

WrapJsonObject ==
    /\ cpc = "build_json"
    /\ JDepth(cin) < MaxDepth
    /\ \E k \in Keys : \E rest \in SiblingMaps(k, JsonSiblings) :
          cin' = JObject(ObjectAround(k, cin, rest))
    /\ UNCHANGED <<cpc, cdoc, cout, notCodec>>

WrapDocArray ==
    /\ cpc = "build_doc"
    /\ DDepth(cdoc) < MaxDepth
    /\ \E pre \in SiblingSeqs(DocSiblings), post \in SiblingSeqs(DocSiblings) :
          /\ Len(pre) + Len(post) < MaxLen
          /\ cdoc' = DArray(pre \o <<cdoc>> \o post)
    /\ UNCHANGED <<cpc, cin, cout, notCodec>>

WrapDocObject ==
    /\ cpc = "build_doc"
    /\ DDepth(cdoc) < MaxDepth
    /\ \E k \in Keys : \E rest \in SiblingMaps(k, DocSiblings) :
          cdoc' = DObject(ObjectAround(k, cdoc, rest))
    /\ UNCHANGED <<cpc, cin, cout, notCodec>>

\* json_to_document(value)
JsonToDocument ==
    /\ cpc = "build_json"
    /\ cdoc' = json_to_document(cin)
    /\ cpc' = "encoded"
    /\ UNCHANGED <<cin, cout, notCodec>>

\* document_to_json(doc), on a built document or on json_to_document's result
DocumentToJson ==
    /\ cpc \in {"build_doc", "encoded"}
    /\ cout' = document_to_json(cdoc)
    /\ cpc' = "decoded"
    /\ UNCHANGED <<cin, cdoc, notCodec>>

NextCodec ==
    \/ WrapJsonArray
    \/ WrapJsonObject
    \/ WrapDocArray
    \/ WrapDocObject
    \/ JsonToDocument
    \/ DocumentToJson

SpecCodec == InitCodec /\ [][NextCodec]_vars

-----------------------------------------------------------------------------
(***************************************************************************)
(* Document Codec: properties                                              *)
(***************************************************************************)

\* C1: for every JSON value v (null, booleans, strings, 64-bit integers,
\* finite floats, arrays, objects), document_to_json(json_to_document(v))
\* equals v; in particular an integer does not come back as a float.
\* Violated by the code: an unsigned integer above i64::MAX comes back as
\* a float.
C1_RoundTripLaw ==
    (cpc = "decoded" /\ cin # NoValue) => cout = cin

\* C2: json_to_document sends a negative integer to NegInt, zero or a
\* positive integer to PosInt, and a non-integral number to Float.
\* Violated by the code: zero is sent to NegInt (and an integer above
\* i64::MAX to Float).
C2_IntegerClassification ==
    (cpc = "encoded" /\ cin.t = "Number") =>
        /\ cdoc.d = "Number"
        /\ (cin.n.k = "NegInt") => cdoc.n.k = "NegInt"
        /\ (cin.n.k = "PosInt") => cdoc.n.k = "PosInt"
        /\ (cin.n.k = "Float" /\ cin.n.f.exp < 0) => cdoc.n.k = "Float"

\* a well-formed serde_json::Value: its floats are finite, its NegInt negative
RECURSIVE IsJsonValue(_)
IsJsonValue(v) ==
    /\ "t" \in DOMAIN v
    /\ CASE v.t = "Null" -> v = JNull
         [] v.t = "Bool" -> v.b \in BOOLEAN
         [] v.t = "String" -> v.s \in STRING
         [] v.t = "Number" ->
                CASE v.n.k = "PosInt" -> IsWord(v.n.u)
                  [] v.n.k = "NegInt" -> IsWord(v.n.i) /\ I64IsNegative(v.n.i)
                  [] v.n.k = "Float" -> v.n.f.c = "finite"
                  [] OTHER -> FALSE
         [] v.t = "Array" -> \A j \in 1..Len(v.a) : IsJsonValue(v.a[j])
         [] v.t = "Object" -> \A key \in DOMAIN v.o : IsJsonValue(v.o[key])
         [] OTHER -> FALSE

\* the integer a PosInt/NegInt number holds: its word and its sign
IntWord(n) == IF n.k = "PosInt" THEN n.u ELSE n.i
IntIsNegative(n) == n.k = "NegInt" /\ I64IsNegative(n.i)
SameInteger(dn, jn) ==
    /\ jn.k \in {"PosInt", "NegInt"}
    /\ IntWord(dn) = IntWord(jn)
    /\ IntIsNegative(dn) = IntIsNegative(jn)

\* json is doc converted node by node, with null at each non-finite float
RECURSIVE ConvertedStructurally(_, _)
ConvertedStructurally(doc, json) ==
    CASE doc.d = "Null" -> json = JNull
      [] doc.d = "Bool" -> json = JBool(doc.b)
      [] doc.d = "String" -> json = JString(doc.s)
      [] doc.d = "Number" ->
            IF doc.n.k = "Float"
            THEN IF doc.n.f.c = "finite"
                 THEN json = JNumber(Float(doc.n.f))
                 ELSE json = JNull
            ELSE json.t = "Number" /\ SameInteger(doc.n, json.n)
      [] doc.d = "Array" ->
            /\ json.t = "Array"
            /\ Len(json.a) = Len(doc.a)
            /\ \A j \in 1..Len(doc.a) : ConvertedStructurally(doc.a[j], json.a[j])
      [] doc.d = "Object" ->
            /\ json.t = "Object"
            /\ DOMAIN json.o = DOMAIN doc.o
            /\ \A key \in DOMAIN doc.o : ConvertedStructurally(doc.o[key], json.o[key])

\* C3: document_to_json returns a JSON value for every document, NaN and
\* the infinities at any depth included: each non-finite float becomes
\* null and every other node is converted structurally.
C3_DocumentToJsonTotal ==
    (cpc = "decoded") => IsJsonValue(cout) /\ ConvertedStructurally(cdoc, cout)

\* C3 witness: a NaN two levels deep came back as null
C3_NestedNaNBecameNull ==
    /\ cpc = "decoded"
    /\ cin = NoValue
    /\ cdoc = DArray(<<DObject([key \in {"a"} |-> DNumber(Float(NaN))])>>)
    /\ cout = JArray(<<JObject([key \in {"a"} |-> JNull])>>)

-----------------------------------------------------------------------------
(***************************************************************************)
(* Completion Adapter (completion.rs).  A text is a sequence of string     *)
(* pieces, so that formatted text (format!, Display) is the concatenation  *)
(* of its pieces.                                                          *)
(***************************************************************************)
MaxHistory == 2
MaxBlocks == 3

Ok(x) == [ok |-> TRUE, v |-> x]
Err(e) == [ok |-> FALSE, err |-> e]

RECURSIVE Flatten(_)
Flatten(ss) == IF ss = <<>> THEN <<>> ELSE Head(ss) \o Flatten(Tail(ss))

\* rig::completion::Document's Display
DocumentToString(doc) == <<"<file id: ", doc.id, ">\n", doc.text, "\n</file>\n">>

\* rig::completion::CompletionRequest::prompt_with_context: the prompt,
\* preceded by the attached documents when there are any
prompt_with_context(req) ==
    IF req.documents = <<>> THEN req.prompt
    ELSE <<"<attachments>\n">>
            \o Flatten([j \in 1..Len(req.documents) |-> DocumentToString(req.documents[j])])
            \o <<"</attachments>\n\n">> \o req.prompt

\* aws_sdk_bedrockruntime::types::ConversationRole
RoleUser == [r |-> "User"]
RoleAssistant == [r |-> "Assistant"]
RoleUnknown(s) == [r |-> "Unknown", v |-> s]

\* ConversationRole::from_str: the SDK's FromStr is infallible
\* (Err = Infallible); a string that is neither "assistant" nor "user"
\* parses to the Unknown variant carrying the string.
ConversationRoleFromStr(s) ==
    CASE s = "assistant" -> Ok(RoleAssistant)
      [] s = "user" -> Ok(RoleUser)
      [] OTHER -> Ok(RoleUnknown(s))

unwrap_or(res, default) == IF res.ok THEN res.v ELSE default

\* aws_sdk_bedrockruntime::types::ContentBlock
BlockText(text) == [b |-> "Text", text |-> text]
BlockToolUse(name, id, input) ==
    [b |-> "ToolUse", name |-> name, tool_use_id |-> id, input |-> input]
BlockImage == [b |-> "Image"]

\* Message::builder().role(..).content(..).build(): Ok, both fields being set
MessageBuild(role, content) == Ok([role |-> role, content |-> content])

\* completion.rs 33-37: the history, then the new user turn
full_history(req) ==
    req.chat_history
        \o << [role |-> "user", content |-> prompt_with_context(req)] >>

\* completion.rs 41-46: the closure of filter_map, for one turn m
history_message(req, m) ==
    LET role == unwrap_or(ConversationRoleFromStr(m.role), RoleUser)
    IN  MessageBuild(role, <<BlockText(prompt_with_context(req))>>)

\* a variant of CollectOk that stops at the first Err
RECURSIVE CollectUntilErr(_)
CollectUntilErr(rs) ==
    IF rs = <<>> THEN <<>>
    ELSE IF Head(rs).ok THEN <<Head(rs).v>> \o CollectUntilErr(Tail(rs))
    ELSE <<>>

\* Iterator::filter_map(.. .ok()).collect(): the Ok values, in order
RECURSIVE CollectOk(_)
CollectOk(rs) ==
    IF rs = <<>> THEN <<>>
    ELSE IF Head(rs).ok THEN <<Head(rs).v>> \o CollectOk(Tail(rs))
    ELSE CollectOk(Tail(rs))

\* completion.rs 39-49
prompt_with_history(req) ==
    LET h == full_history(req)
    IN  CollectOk([j \in 1..Len(h) |-> history_message(req, h[j])])

\* `f as f32` (completion.rs 62): round to 24 significant bits (fewer in
\* the subnormal range), ties to even; beyond f32's range, an infinity
BitLen64(w) ==
    IF w[1] > 0 THEN 44 + BitLen(w[1])
    ELSE IF w[2] > 0 THEN 22 + BitLen(w[2])
    ELSE BitLen(w[3])

RECURSIVE ShiftRightSticky(_, _, _, _)
ShiftRightSticky(w, k, guard, sticky) ==
    IF k = 0 THEN [q |-> w, guard |-> guard, sticky |-> sticky]
    ELSE ShiftRightSticky(Half64(w), k - 1, w[3] % 2, sticky \/ guard = 1)

RoundShift(w, k) ==
    LET r == ShiftRightSticky(w, k, 0, FALSE)
        up == r.guard = 1 /\ (r.sticky \/ r.q[3] % 2 = 1)
    IN  IF up THEN Inc64(r.q) ELSE r.q

F64ToF32(f) ==
    IF f.c # "finite" THEN f
    ELSE IF f.sig = Zero64 THEN f
    ELSE LET len == BitLen64(f.sig)
             kprec == IF len > 24 THEN len - 24 ELSE 0
             ksub == IF f.exp < -149 THEN -149 - f.exp ELSE 0
             k == IF kprec > ksub THEN kprec ELSE ksub
             q == RoundShift(f.sig, k)
         IN  IF BitLen64(q) + f.exp + k > 128
             THEN [c |-> "inf", neg |-> f.neg]
             ELSE Finite(f.neg, q, f.exp + k)

\* `u as i32` (completion.rs 67): the low 32 bits, read as two's complement
U64AsI32(u) ==
    LET hi == u[2] % 1024
    IN  IF hi >= 512 THEN (hi - 1024) * Limb + u[3] ELSE hi * Limb + u[3]

option_unwrap_or(opt, default) == IF opt.some THEN opt.v ELSE default
option_map(opt, F(_)) == IF opt.some THEN Some(F(opt.v)) ELSE None

\* completion.rs 53, 59-70: InferenceConfiguration::builder() .. build()
inference_config(req) ==
    [ temperature |-> option_map(req.temperature, F64ToF32),
      max_tokens |-> option_map(req.max_tokens, U64AsI32) ]

\* ToolSpecification::builder() .. build(): name and input_schema are required
ToolSpecificationBuild(name, description, input_schema) ==
    IF name.some /\ input_schema.some
    THEN Ok([name |-> name.v, description |-> description,
             input_schema |-> input_schema.v])
    ELSE Err([k |-> "BuildError"])

\* ToolConfiguration::builder().set_tools(..).build(): tools is required
ToolConfigurationBuild(tools) ==
    IF tools.some THEN Ok([tools |-> tools.v, tool_choice |-> None])
    ELSE Err([k |-> "BuildError"])

ToolInputSchemaJson(document) == [s |-> "Json", json |-> document]

\* a variant of tool_spec that leaves the description unset
tool_spec_without_description(tool_definition) ==
    ToolSpecificationBuild(
        Some(tool_definition.name), None,
        Some(ToolInputSchemaJson(json_to_document(tool_definition.parameters))))

\* completion.rs 74-85: one pass of the loop over completion_request.tools
tool_spec(tool_definition) ==
    LET document == json_to_document(tool_definition.parameters)
        schema == ToolInputSchemaJson(document)
    IN  ToolSpecificationBuild(Some(tool_definition.name),
                               Some(tool_definition.description),
                               Some(schema))

RequestError(e) == [k |-> "RequestError", e |-> e]
ProviderError(msg) == [k |-> "ProviderError", msg |-> msg]
ResponseError(msg) == [k |-> "ResponseError", msg |-> msg]

\* a variant of system_content that sends no block
system_content_empty(system_prompt) == <<>>

\* completion.rs 98: vec![SystemContentBlock::Text(system_prompt)]
system_content(system_prompt) == << [b |-> "Text", text |-> system_prompt] >>

\* index of the first Err of a sequence of results, 0 if none
FirstErr(rs) ==
    LET bad == { j \in 1..Len(rs) : ~rs[j].ok }
    IN  IF bad = {} THEN 0 ELSE CHOOSE j \in bad : \A i \in bad : j <= i

\* completion.rs 32-99: everything before send(): Ok(the Converse request),
\* or Err(RequestError) from a `?`
converse_request(model_id, req) ==
    LET specs == [j \in 1..Len(req.tools) |-> tool_spec(req.tools[j])]
        bad == FirstErr(specs)
        tools == [j \in 1..Len(specs) |-> [tool |-> "ToolSpec", spec |-> specs[j].v]]
        config == ToolConfigurationBuild(Some(tools))
    IN  IF bad # 0 THEN Err(RequestError(specs[bad].err))
        ELSE IF tools # <<>> /\ ~config.ok THEN Err(RequestError(config.err))
        ELSE Ok([ model_id |-> model_id,
                  messages |-> Some(prompt_with_history(req)),
                  additional_model_request_fields |->
                      option_map(req.additional_params, json_to_document),
                  inference_config |-> Some(inference_config(req)),
                  tool_config |-> IF tools # <<>> THEN Some(config.v) ELSE None,
                  system |->
                      IF req.preamble.some
                      THEN Some(system_content(req.preamble.v))
                      ELSE None ])

\* completion.rs 110-118: the ConverseError variants matched by name
ConverseErrorVariants ==
    { "ModelTimeoutException", "AccessDeniedException",
      "ResourceNotFoundException", "ThrottlingException",
      "ServiceUnavailableException", "InternalServerException",
      "ValidationException", "ModelNotReadyException", "ModelErrorException" }

\* completion.rs 110-118: the text used when the service error has no message
ConverseErrorDefault(variant) ==
    CASE variant = "ModelTimeoutException" ->
            <<"The request took too long to process. Processing time exceeded the model timeout length.">>
      [] variant = "AccessDeniedException" ->
            <<"The request is denied because you do not have sufficient permissions to perform the requested action.">>
      [] variant = "ResourceNotFoundException" ->
            <<"The specified resource ARN was not found.">>
      [] variant = "ThrottlingException" ->
            <<"Your request was denied due to exceeding the account quotas for AWS Bedrock.">>
      [] variant = "ServiceUnavailableException" ->
            <<"The service isn't currently available.">>
      [] variant = "InternalServerException" ->
            <<"An internal server error occurred.">>
      [] variant = "ValidationException" ->
            <<"The input fails to satisfy the constraints specified by AWS Bedrock.">>
      [] variant = "ModelNotReadyException" ->
            <<"The model specified in the request is not ready to serve inference requests. The AWS SDK will automatically retry the operation up to 5 times.">>
      [] variant = "ModelErrorException" ->
            <<"The request failed due to an error while processing the model.">>

\* SdkError: a service error (a ConverseError variant with an optional
\* message) or a failure with no service error (as_service_error() = None)
ServiceError(variant, message) ==
    [service |-> TRUE, variant |-> variant, message |-> message]
TransportError(kind) == [service |-> FALSE, kind |-> kind]

\* a variant of converse_error that reports a ResponseError
converse_error_as_response_error(sdk_error) ==
    ResponseError(<<"{:?}", sdk_error>>)

\* completion.rs 107-124: the closure of map_err
converse_error(sdk_error) ==
    IF sdk_error.service
    THEN ProviderError(
            IF sdk_error.variant \in ConverseErrorVariants
            THEN option_unwrap_or(sdk_error.message,
                                  ConverseErrorDefault(sdk_error.variant))
            ELSE <<"An unexpected error occurred (e.g., invalid JSON returned by the service or an unknown error code).">>)
    ELSE ProviderError(<<"{:?}", sdk_error.kind>>)

\* a variant of find_block that takes the last block of the kind
find_block_last(blocks, kind) ==
    LET at == { j \in 1..Len(blocks) : blocks[j].b = kind }
    IN  IF at = {} THEN None
        ELSE Some(blocks[CHOOSE j \in at : \A i \in at : i <= j])

\* completion.rs 138-155: Iterator::find_map over the content blocks, the
\* first block of the kind
find_block(blocks, kind) ==
    LET at == { j \in 1..Len(blocks) : blocks[j].b = kind }
    IN  IF at = {} THEN None
        ELSE Some(blocks[CHOOSE j \in at : \A i \in at : j <= i])

\* rig::completion::ModelChoice
ChoiceToolCall(name, id, args) ==
    [c |-> "ToolCall", name |-> name, id |-> id, args |-> args]
ChoiceMessage(text) == [c |-> "Message", text |-> text]

\* a variant of no_choice that reports a ProviderError
no_choice_as_provider_error ==
    Err(ProviderError(<<"Response did not contain a message or tool call">>))

\* completion.rs 162-164
no_choice ==
    Err(ResponseError(<<"Response did not contain a message or tool call">>))

\* completion.rs 138-164: the choice made from the reply's content blocks
choose(response, content_blocks) ==
    LET tool_use == find_block(content_blocks, "ToolUse")
        text == find_block(content_blocks, "Text")
    IN  IF tool_use.some
        THEN Ok([ choice |-> ChoiceToolCall(tool_use.v.name,
                                            tool_use.v.tool_use_id,
                                            document_to_json(tool_use.v.input)),
                  raw_response |-> response ])
        ELSE IF text.some
        THEN Ok([ choice |-> ChoiceMessage(text.v.text),
                  raw_response |-> response ])
        ELSE no_choice

\* completion.rs 106-164: everything after send().await
completion_result(model_response) ==
    IF ~model_response.ok THEN Err(converse_error(model_response.err))
    ELSE IF ~model_response.v.output.some
    THEN Err(ProviderError(<<"Model didn't return any converse output">>))
    ELSE LET response == model_response.v.output.v
         IN  IF response.o # "Message"
             THEN Err(ProviderError(<<"Failed to extract message from converse output">>))
             ELSE choose(response, response.message.content)

-----------------------------------------------------------------------------
(***************************************************************************)
(* The completion call's inputs (the request) and the replies the remote   *)
(* model can give.                                                         *)
(***************************************************************************)
\* client.rs 22: BedrockModel::NovaLite.as_str()
ModelId == "amazon.nova-lite-v1:0"

HistoryRoles == {"user", "assistant", "system"}
HistoryContents == { <<"h1">>, <<"h2">> }
HistoryMessages ==
    { [role |-> r, content |-> c] : r \in HistoryRoles, c \in HistoryContents }
Histories == UNION { [1..n -> HistoryMessages] : n \in 0..MaxHistory }

ContextDocuments == { <<>>, << [id |-> "d1", text |-> "ctx"] >> }

ToolAdd ==
    [ name |-> "add", description |-> "Add x and y",
      parameters |-> JObject([key \in {"type"} |-> JString("object")]) ]
ToolNop ==
    [ name |-> "nop", description |-> "", parameters |-> JObject(<<>>) ]
ToolLists == { <<>>, <<ToolAdd>>, <<ToolNop>>, <<ToolAdd, ToolNop>> }

ZeroPointSeven == Finite(FALSE, W(179, 838860, 3355443), -52)   \* 0.7f64
Temperatures == { None, Some(ZeroPointSeven) }
\* 1024, 2^31, 2^32 + 5
MaxTokens == { None, Some(W(0, 0, 1024)), Some(W(0, 512, 0)), Some(W(0, 1024, 5)) }
Preambles == { None, Some(<<"be brief">>) }
AdditionalParams ==
    { None, Some(JObject([key \in {"top_k"} |-> JNumber(PosInt(Zero64))])) }

BaseRequest ==
    [ prompt |-> <<"p">>, preamble |-> None, chat_history |-> <<>>,
      documents |-> <<>>, tools |-> <<>>, temperature |-> None,
      max_tokens |-> None, additional_params |-> None ]

\* the requests: every history with and without context, and every
\* combination of the optional fields
Requests ==
    { [BaseRequest EXCEPT !.chat_history = h, !.documents = d] :
        h \in Histories, d \in ContextDocuments }
    \cup
    { [BaseRequest EXCEPT !.preamble = p, !.temperature = t, !.max_tokens = m,
                          !.additional_params = a, !.tools = tl] :
        p \in Preambles, t \in Temperatures, m \in MaxTokens,
        a \in AdditionalParams, tl \in ToolLists }

ToolUseA ==
    BlockToolUse("add", "call_1", DObject([key \in {"x"} |-> DNumber(PosInt(One64))]))
ToolUseB ==
    BlockToolUse("nop", "call_2", DArray(<<DNumber(Float(NaN))>>))
ReplyBlocks ==
    { BlockText(<<"t1">>), BlockText(<<"t2">>), ToolUseA, ToolUseB, BlockImage }
ReplyBlockSeqs == UNION { [1..n -> ReplyBlocks] : n \in 0..MaxBlocks }

\* ConverseOutput
OutputMessage(content) ==
    [o |-> "Message", message |-> [role |-> RoleAssistant, content |-> content]]
OutputUnknown == [o |-> "Unknown"]

\* what send().await can return
ModelResponses ==
    { Err(ServiceError(v, msg)) :
        v \in ConverseErrorVariants \cup {"Unhandled"},
        msg \in { None, Some(<<"m">>) } }
    \cup { Err(TransportError(kd)) : kd \in {"DispatchFailure", "TimeoutError"} }
    \cup { Ok([output |-> None]), Ok([output |-> Some(OutputUnknown)]) }
    \cup { Ok([output |-> Some(OutputMessage(bs))]) : bs \in ReplyBlockSeqs }

InitCompletion ==
    /\ IdleCodec
    /\ IdleEmbedding
    /\ IdleMapper
    /\ kpc = "ready"
    /\ kreq \in Requests
    /\ kout = NoValue
    /\ kcalls = 0
    /\ kreply = NoValue
    /\ kres = NoValue

\* completion.rs 28-104: the call, up to send(): the request is assembled
\* and handed to the SDK, or a `?` returns a RequestError
CompletionSend ==
    /\ kpc = "ready"
    /\ LET built == converse_request(ModelId, kreq)
       IN  IF built.ok
           THEN /\ kout' = built.v
                /\ kcalls' = kcalls + 1
                /\ kpc' = "sent"
                /\ kres' = kres
           ELSE /\ kres' = Err(built.err)
                /\ kpc' = "done"
                /\ UNCHANGED <<kout, kcalls>>
    /\ UNCHANGED <<kreq, kreply, notCompletion>>

\* a variant of CompletionReply that sends the request again after a failed
\* invocation
CompletionReplyRetry ==
    /\ kpc = "sent"
    /\ \E model_response \in ModelResponses :
          /\ kreply' = model_response
          /\ IF model_response.ok
             THEN kres' = completion_result(model_response) /\ kpc' = "done"
             ELSE kres' = kres /\ kpc' = "ready"
    /\ UNCHANGED <<kreq, kout, kcalls, notCompletion>>

\* completion.rs 104-165: send().await returns and the call runs to its end
CompletionReply ==
    /\ kpc = "sent"
    /\ \E model_response \in ModelResponses :
          /\ kreply' = model_response
          /\ kres' = completion_result(model_response)
    /\ kpc' = "done"
    /\ UNCHANGED <<kreq, kout, kcalls, notCompletion>>

NextCompletion ==
    \/ CompletionSend
    \/ CompletionReply

SpecCompletion == InitCompletion /\ [][NextCompletion]_vars

-----------------------------------------------------------------------------
(***************************************************************************)
(* Completion Adapter: properties                                          *)
(***************************************************************************)
RequestSent == kpc \in {"sent", "done"} /\ kout # NoValue

\* C4: the outbound message list is the history in its order followed by
\* one new user turn: len(history) + 1 messages, every history turn
\* carrying its own content and the last turn the rendered prompt.
\* Violated by the code: every message carries the rendered prompt.
C4_HistoryThenPrompt ==
    RequestSent =>
        LET msgs == kout.messages.v
            h == kreq.chat_history
        IN  /\ Len(msgs) = Len(h) + 1
            /\ \A j \in 1..Len(h) : msgs[j].content = <<BlockText(h[j].content)>>
            /\ msgs[Len(h) + 1].role = RoleUser
            /\ msgs[Len(h) + 1].content = <<BlockText(prompt_with_context(kreq))>>

\* C10: a turn whose role string is not a recognized role is sent with
\* role User; "user" and "assistant" are sent with the matching role.
\* Violated by the code: an unrecognized string is sent as the SDK's
\* Unknown role carrying that string.
C10_RoleFallback ==
    RequestSent =>
        LET msgs == kout.messages.v
            turns == full_history(kreq)
        IN  /\ Len(msgs) = Len(turns)
            /\ \A j \in 1..Len(turns) :
                  msgs[j].role = CASE turns[j].role = "user" -> RoleUser
                                   [] turns[j].role = "assistant" -> RoleAssistant
                                   [] OTHER -> RoleUser

\* the call has ended on a reply that holds a message
MessageReplied ==
    /\ kpc = "done"
    /\ kreply # NoValue
    /\ kreply.ok
    /\ kreply.v.output.some
    /\ kreply.v.output.v.o = "Message"

RepliedBlocks == kreply.v.output.v.message.content
BlocksOfKind(kind) == { j \in 1..Len(RepliedBlocks) : RepliedBlocks[j].b = kind }

\* C5: if the reply holds a tool-use block, the result is the tool call of
\* the first one in block order (name, call id, arguments through
\* document_to_json), wherever the text blocks are; otherwise, if it holds
\* a text block, the result is a text message carrying the first one.
C5_ReplySelection ==
    MessageReplied =>
        /\ (BlocksOfKind("ToolUse") # {}) =>
              \E i \in BlocksOfKind("ToolUse") :
                  /\ \A j \in BlocksOfKind("ToolUse") : i <= j
                  /\ kres.ok
                  /\ kres.v.choice =
                        ChoiceToolCall(RepliedBlocks[i].name,
                                       RepliedBlocks[i].tool_use_id,
                                       document_to_json(RepliedBlocks[i].input))
        /\ (BlocksOfKind("ToolUse") = {} /\ BlocksOfKind("Text") # {}) =>
              \E i \in BlocksOfKind("Text") :
                  /\ \A j \in BlocksOfKind("Text") : i <= j
                  /\ kres.ok
                  /\ kres.v.choice = ChoiceMessage(RepliedBlocks[i].text)

\* C5 witness: a text block, then two tool-use blocks: the first tool use won
C5_ToolUseAfterTextWon ==
    /\ MessageReplied
    /\ RepliedBlocks = <<BlockText(<<"t1">>), ToolUseB, ToolUseA>>
    /\ kres.ok
    /\ kres.v.choice = ChoiceToolCall("nop", "call_2", JArray(<<JNull>>))

\* C6: a reply message with neither a tool-use block nor a text block (an
\* empty block list included) fails with a response-error, never with a
\* provider-error or a success.
C6_NoChoiceIsResponseError ==
    (MessageReplied /\ BlocksOfKind("ToolUse") = {} /\ BlocksOfKind("Text") = {})
        => (~kres.ok /\ kres.err.k = "ResponseError")

\* C6 witness: the reply's block list was empty and the call failed with a
\* response-error
C6_EmptyReplyFailed ==
    /\ MessageReplied
    /\ RepliedBlocks = <<>>
    /\ ~kres.ok
    /\ kres.err.k = "ResponseError"

\* the call has got past the assembly of the request
PastAssembly == kpc \in {"sent", "done"}

\* C11: the request carries a tool configuration iff the tool list is
\* non-empty; it then holds one tool specification per tool definition, in
\* order, with the definition's name, description and parameters (through
\* json_to_document); a tool with an empty parameter object is no exception,
\* and no tool list makes the assembly fail.
C11_ToolConfiguration ==
    PastAssembly =>
        /\ RequestSent
        /\ kout.tool_config.some <=> (kreq.tools # <<>>)
        /\ kout.tool_config.some =>
              LET tools == kout.tool_config.v.tools
              IN  /\ Len(tools) = Len(kreq.tools)
                  /\ \A j \in 1..Len(tools) :
                        /\ tools[j].tool = "ToolSpec"
                        /\ tools[j].spec.name = kreq.tools[j].name
                        /\ tools[j].spec.description =
                              Some(kreq.tools[j].description)
                        /\ tools[j].spec.input_schema =
                              ToolInputSchemaJson(
                                  json_to_document(kreq.tools[j].parameters))

\* C11 witness: two tools were sent, the second with an empty parameter
\* object, which went out as an empty Document object
C11_TwoToolsSent ==
    /\ RequestSent
    /\ kreq.tools = <<ToolAdd, ToolNop>>
    /\ kout.tool_config.some
    /\ Len(kout.tool_config.v.tools) = 2
    /\ kout.tool_config.v.tools[2].spec.input_schema =
          ToolInputSchemaJson(DObject(<<>>))

\* C12: the inference configuration carries a temperature, resp. a
\* max-token count, iff the request carries one, and the max-token count
\* sent equals the request's.
\* Violated by the code: `max_tokens as i32` keeps the low 32 bits.
C12_InferenceConfiguration ==
    RequestSent =>
        LET cfg == kout.inference_config.v
        IN  /\ cfg.temperature.some <=> kreq.temperature.some
            /\ cfg.max_tokens.some <=> kreq.max_tokens.some
            /\ cfg.max_tokens.some =>
                  /\ cfg.max_tokens.v >= 0
                  /\ kreq.max_tokens.v =
                        W(0, cfg.max_tokens.v \div Limb, cfg.max_tokens.v % Limb)

\* C13: the request carries system blocks iff the completion request has a
\* preamble, and then exactly one text block equal to it; it carries
\* additional model request fields iff the completion request has extra
\* parameters, and then json_to_document of them.
C13_SystemAndAdditionalFields ==
    RequestSent =>
        /\ kout.system.some <=> kreq.preamble.some
        /\ kout.system.some =>
              kout.system.v = << [b |-> "Text", text |-> kreq.preamble.v] >>
        /\ kout.additional_model_request_fields.some
              <=> kreq.additional_params.some
        /\ kout.additional_model_request_fields.some =>
              kout.additional_model_request_fields.v =
                  json_to_document(kreq.additional_params.v)

\* C13 witness: a request with a preamble and extra parameters was sent with
\* one system block and the parameters as a Document
C13_PreambleAndParamsSent ==
    /\ RequestSent
    /\ kreq.preamble = Some(<<"be brief">>)
    /\ kout.system = Some(<< [b |-> "Text", text |-> <<"be brief">>] >>)
    /\ kreq.additional_params.some
    /\ kout.additional_model_request_fields.some
    /\ kout.additional_model_request_fields.v.d = "Object"

\* the invocation failed, or its reply has no output or no message
InvocationUnusable ==
    /\ kpc = "done"
    /\ kreply # NoValue
    /\ \/ ~kreply.ok
       \/ ~kreply.v.output.some
       \/ kreply.v.output.v.o # "Message"

\* C14: when the invocation fails (a recognized service error, another
\* service error, a failure that is no service error), or its reply has no
\* output or an output that is not a message, the call returns a
\* provider-error.
C14_FailuresAreProviderErrors ==
    InvocationUnusable => (~kres.ok /\ kres.err.k = "ProviderError")

\* C14 witness: an unrecognized service error ended the call with the
\* generic provider-error
C14_UnhandledServiceErrorFailed ==
    /\ kpc = "done"
    /\ kreply = Err(ServiceError("Unhandled", None))
    /\ kres = Err(ProviderError(<<"An unexpected error occurred (e.g., invalid JSON returned by the service or an unknown error code).">>))

\* C15: a completion call issues at most one remote invocation, and a call
\* that has ended on a failed invocation has issued exactly one.
C15_OneInvocation ==
    /\ kcalls <= 1
    /\ (kpc # "sent" /\ kreply # NoValue /\ ~kreply.ok) =>
          (kpc = "done" /\ kcalls = 1 /\ ~kres.ok)

\* C15 witness: the invocation was throttled and the call ended with the
\* error after one invocation
C15_ThrottledOnce ==
    /\ kpc = "done"
    /\ kreply = Err(ServiceError("ThrottlingException", Some(<<"m">>)))
    /\ kcalls = 1
    /\ kres = Err(ProviderError(<<"m">>))

-----------------------------------------------------------------------------
(***************************************************************************)
(* Embedding Adapter (embedding.rs)                                        *)
(***************************************************************************)
MaxDocs == 3

\* examples/embedding_with_bedrock.rs 22: TitanTextEmbeddingsV2(256)
Ndims == 256

\* embedding.rs 32: BedrockEmbeddingModel::TitanTextEmbeddingsV2(_).as_str()
EmbeddingModelId == "amazon.titan-embed-text-v2:0"

\* embedding.rs 8-14 and 53: serde_json::to_string(&EmbeddingRequest), the
\* camelCase JSON envelope, as the JSON text's value
EmbeddingRequest(input_text, dimensions, normalize) ==
    [input_text |-> input_text, dimensions |-> dimensions, normalize |-> normalize]

EmbeddingRequestToString(request) ==
    Ok([ json_text |->
            JObject([key \in {"inputText", "dimensions", "normalize"} |->
                CASE key = "inputText" -> JString(request.input_text)
                  [] key = "dimensions" -> JNumber(PosInt(W(0, 0, request.dimensions)))
                  [] key = "normalize" -> JBool(request.normalize)]) ])

\* embedding.rs 55-63: the InvokeModel request handed to send()
InvokeModelRequest(body) ==
    [ model_id |-> EmbeddingModelId, content_type |-> "application/json",
      accept |-> "application/json", body |-> body ]

\* embedding.rs 69-78: the InvokeModelError variants matched by name
InvokeModelErrorVariants ==
    ConverseErrorVariants \cup {"ServiceQuotaExceededException"}

\* embedding.rs 69-78: the text used when the service error has no message
InvokeModelErrorDefault(variant) ==
    CASE variant = "ThrottlingException" ->
            <<"Your request was denied due to exceeding the account quotas for Amazon Bedrock.">>
      [] variant = "ValidationException" ->
            <<"The input fails to satisfy the constraints specified by Amazon Bedrock.">>
      [] variant = "ServiceQuotaExceededException" ->
            <<"Your request exceeds the service quota for your account.">>
      [] OTHER -> ConverseErrorDefault(variant)

EmbeddingProviderError(msg) == [k |-> "ProviderError", msg |-> msg]
EmbeddingResponseError(msg) == [k |-> "ResponseError", msg |-> msg]
EmbeddingJsonError(msg) == [k |-> "JsonError", msg |-> msg]

\* embedding.rs 66-84: the closure of map_err
invoke_model_error(sdk_error) ==
    IF sdk_error.service
    THEN EmbeddingProviderError(
            IF sdk_error.variant \in InvokeModelErrorVariants
            THEN option_unwrap_or(sdk_error.message,
                                  InvokeModelErrorDefault(sdk_error.variant))
            ELSE <<"An unexpected error occurred (e.g., invalid JSON returned by the service or an unknown error code).">>)
    ELSE EmbeddingProviderError(<<"{:?}", sdk_error.kind>>)

\* core::str::from_utf8 (embedding.rs 86 calls String::from_utf8): the
\* bytes are read one character at a time from offset index.  A byte that
\* cannot start a character, or a second byte outside the range its first
\* byte allows, is an error of length 1; a later byte that is no
\* continuation byte is an error of the length read so far; the end of the
\* bytes inside a character is an error of no length.
RECURSIVE run_utf8_validation(_, _)
run_utf8_validation(v, index) ==
    IF index >= Len(v) THEN Ok(v)
    ELSE LET first == v[index + 1]
             eof(i) == index + i >= Len(v)
             at(i) == v[index + i + 1]
             continuation(i) == at(i) \in 128..191
             err(error_len) ==
                Err([valid_up_to |-> index, error_len |-> error_len])
             width == IF first < 128 THEN 1
                      ELSE IF first \in 194..223 THEN 2
                      ELSE IF first \in 224..239 THEN 3
                      ELSE IF first \in 240..244 THEN 4
                      ELSE 0
             second_ok ==
                CASE first = 224 -> at(1) \in 160..191
                  [] first = 237 -> at(1) \in 128..159
                  [] first = 240 -> at(1) \in 144..191
                  [] first = 244 -> at(1) \in 128..143
                  [] OTHER -> at(1) \in 128..191
         IN  IF width = 0 THEN err(Some(1))
             ELSE IF width = 1 THEN run_utf8_validation(v, index + 1)
             ELSE IF eof(1) THEN err(None)
             ELSE IF ~second_ok THEN err(Some(1))
             ELSE IF width = 2 THEN run_utf8_validation(v, index + 2)
             ELSE IF eof(2) THEN err(None)
             ELSE IF ~continuation(2) THEN err(Some(2))
             ELSE IF width = 3 THEN run_utf8_validation(v, index + 3)
             ELSE IF eof(3) THEN err(None)
             ELSE IF ~continuation(3) THEN err(Some(3))
             ELSE run_utf8_validation(v, index + 4)

from_utf8(vec) == run_utf8_validation(vec, 0)

\* core::str::Utf8Error's Display (FromUtf8Error's is the same)
Utf8ErrorToString(e) ==
    IF e.error_len.some
    THEN "invalid utf-8 sequence of " \o ToString(e.error_len.v)
            \o " bytes from index " \o ToString(e.valid_up_to)
    ELSE "incomplete utf-8 byte sequence from index " \o ToString(e.valid_up_to)

\* serde_json::Error: what went wrong and where; its Display leaves the
\* place out when the line is 0
serde_json_Error(code, line, column) ==
    [code |-> code, line |-> line, column |-> column]

serde_json_ErrorToString(e) ==
    IF e.line = 0 THEN e.code
    ELSE e.code \o " at line " \o ToString(e.line)
            \o " column " \o ToString(e.column)

\* embedding.rs 16-21: EmbeddingResponse
EmbeddingResponse(embedding, input_text_token_count) ==
    [embedding |-> embedding, input_text_token_count |-> input_text_token_count]

\* embedding.rs 86-90: the body of a reply: its bytes, and what
\* serde_json::from_str::<EmbeddingResponse> returns for the text they
\* spell (a library call the model takes as given; NoValue where the bytes
\* spell no text)
Body(bytes, from_str) == [bytes |-> bytes, from_str |-> from_str]

\* the byte 0xFF, and the first two bytes of a three-byte character
BodyNotUtf8 == Body(<<255>>, NoValue)
BodyTruncated == Body(<<226, 130>>, NoValue)
\* the texts "hello" and ""
BodyNotJson ==
    Body(<<104, 101, 108, 108, 111>>,
         Err(serde_json_Error("expected value", 1, 1)))
BodyEmpty ==
    Body(<<>>, Err(serde_json_Error("EOF while parsing a value", 1, 0)))
\* the texts {"embedding":[1.5],"inputTextTokenCount":2}
\* and {"embedding":[-0.5,1.0],"inputTextTokenCount":2}
BodyOneAndHalf ==
    Body(<< 123, 34, 101, 109, 98, 101, 100, 100, 105, 110, 103, 34, 58,
            91, 49, 46, 53, 93, 44, 34, 105, 110, 112, 117, 116, 84, 101,
            120, 116, 84, 111, 107, 101, 110, 67, 111, 117, 110, 116, 34,
            58, 50, 125 >>,
         Ok(EmbeddingResponse(<<OneAndHalf>>, 2)))
BodyTwoFloats ==
    Body(<< 123, 34, 101, 109, 98, 101, 100, 100, 105, 110, 103, 34, 58,
            91, 45, 48, 46, 53, 44, 49, 46, 48, 93, 44, 34, 105, 110,
            112, 117, 116, 84, 101, 120, 116, 84, 111, 107, 101, 110, 67,
            111, 117, 110, 116, 34, 58, 50, 125 >>,
         Ok(EmbeddingResponse(<<MinusHalf, OnePointZero>>, 2)))

\* embedding.rs 66-92: document_to_embeddings after send().await
embedding_response(model_response) ==
    IF ~model_response.ok THEN Err(invoke_model_error(model_response.err))
    ELSE LET body == model_response.v.body
             response_str == from_utf8(body.bytes)
         IN  IF ~response_str.ok
             THEN Err(EmbeddingResponseError(
                        <<Utf8ErrorToString(response_str.err)>>))
             ELSE IF ~body.from_str.ok
             THEN Err(EmbeddingJsonError(
                        <<serde_json_ErrorToString(body.from_str.err)>>))
             ELSE Ok(body.from_str.v)

\* rig::embeddings::EmbeddingError's Display
EmbeddingErrorToString(err) == <<err.k, ": ">> \o err.msg

\* embedding.rs 116-128: the request made for one document
embedding_request(doc) == EmbeddingRequest(doc, Ndims, TRUE)

\* embedding.rs 122-127: the future's value, from document_to_embeddings'
embedding_of(doc, response) ==
    IF response.ok
    THEN Ok([document |-> doc, vec |-> response.v.embedding])
    ELSE response

\* a variant of push that inserts at the front
push_front(vec, x) == <<x>> \o vec

\* embedding.rs 130-131: Vec::push
push(vec, x) == Append(vec, x)

\* embedding.rs 116: `while let Some(..) = iterator.next()`: the loop goes on
\* while the iterator has documents, whatever is in errors
loop_continues(docs, idx, errors) == idx < Len(docs)

\* a variant of first_error that takes the last error
first_error_is_last(errors) == errors[Len(errors)]

\* embedding.rs 137: the `[err, ..]` pattern
first_error(errors) == errors[1]

\* embedding.rs 135-138: the match on errors.as_slice()

embed_texts_result(results, errors) ==
    IF errors = <<>> THEN Ok(results)
    ELSE Err(EmbeddingResponseError(EmbeddingErrorToString(first_error(errors))))

\* embedding.rs 115-138: embed_texts from the top of the loop, with idx
\* documents consumed, up to its next send() or to its return
RECURSIVE run_loop(_, _, _, _)
run_loop(docs, idx, results, errors) ==
    IF ~loop_continues(docs, idx, errors)
    THEN [ pc |-> "done", idx |-> idx, results |-> results, errors |-> errors,
           out |-> embed_texts_result(results, errors) ]
    ELSE LET doc == docs[idx + 1]
             input_document == EmbeddingRequestToString(embedding_request(doc))
         IN  IF input_document.ok
             THEN [ pc |-> "waiting", idx |-> idx + 1, results |-> results,
                    errors |-> errors,
                    invoke |-> InvokeModelRequest(input_document.v) ]
             ELSE run_loop(docs, idx + 1, results,
                           push(errors, EmbeddingJsonError(input_document.err)))

EmbedTexts == {"aa", "bb"}
DocBatches == UNION { [1..n -> EmbedTexts] : n \in 0..MaxDocs }

\* what send().await can return for one InvokeModel request
InvokeResponses ==
    { Ok([body |-> b]) :
        b \in { BodyOneAndHalf, BodyTwoFloats, BodyNotUtf8, BodyTruncated,
                BodyNotJson, BodyEmpty } }
    \cup { Err(ServiceError(v, msg)) :
            v \in {"ThrottlingException", "ServiceQuotaExceededException", "Unhandled"},
            msg \in { None, Some(<<"m">>) } }
    \cup { Err(TransportError("DispatchFailure")) }

InitEmbedding ==
    /\ IdleCodec
    /\ IdleCompletion
    /\ IdleMapper
    /\ epc = "ready"
    /\ edocs \in DocBatches
    /\ eidx = 0
    /\ eresults = <<>>
    /\ eerrors = <<>>
    /\ einvoked = <<>>
    /\ ereplies = <<>>
    /\ eout = NoValue

\* the loop has run from `at` to its next send() or to the return
EmbedAdvance(at) ==
    /\ epc' = at.pc
    /\ eidx' = at.idx
    /\ eresults' = at.results
    /\ eerrors' = at.errors
    /\ IF at.pc = "waiting"
       THEN einvoked' = Append(einvoked, at.invoke) /\ eout' = eout
       ELSE einvoked' = einvoked /\ eout' = at.out

\* a variant of EmbedStart that issues the invocations of all the documents
\* before it awaits the first
EmbedStartFanOut ==
    /\ epc = "ready"
    /\ IF edocs = <<>>
       THEN EmbedAdvance(run_loop(edocs, 0, <<>>, <<>>))
       ELSE /\ einvoked' =
                  [j \in 1..Len(edocs) |->
                      InvokeModelRequest(
                          EmbeddingRequestToString(embedding_request(edocs[j])).v)]
            /\ epc' = "waiting"
            /\ eidx' = 1
            /\ UNCHANGED <<eresults, eerrors, eout>>
    /\ UNCHANGED <<edocs, ereplies, notEmbedding>>

\* embedding.rs 106-116: embed_texts is called and runs to its first
\* send() (or returns, when there is no document)
EmbedStart ==
    /\ epc = "ready"
    /\ EmbedAdvance(run_loop(edocs, 0, <<>>, <<>>))
    /\ UNCHANGED <<edocs, ereplies, notEmbedding>>

\* embedding.rs 64-92, 124-138: a send().await returns; the result or the
\* error is pushed and the loop goes on to the next send() or to the return
EmbedReply ==
    /\ epc = "waiting"
    /\ \E model_response \in InvokeResponses :
          LET embedding == embedding_of(edocs[eidx], embedding_response(model_response))
              results == IF embedding.ok THEN push(eresults, embedding.v) ELSE eresults
              errors == IF embedding.ok THEN eerrors ELSE push(eerrors, embedding.err)
          IN  /\ ereplies' = Append(ereplies, model_response)
              /\ EmbedAdvance(run_loop(edocs, eidx, results, errors))
    /\ UNCHANGED <<edocs, notEmbedding>>

NextEmbedding ==
    \/ EmbedStart
    \/ EmbedReply

SpecEmbedding == InitEmbedding /\ [][NextEmbedding]_vars

-----------------------------------------------------------------------------
(***************************************************************************)
(* Content Mapper (types/mod.rs).  A byte payload is a sequence of bytes   *)
(* 0..255.  A base64 text is the sequence of the bytes of its characters   *)
(* (65 is 'A', 61 the padding character '=', 33 the character '!', which   *)
(* is outside the alphabet).  Media types and formats are written by       *)
(* name; a provider format is the string the SDK reads it from, any        *)
(* string outside the known ones being its Unknown variant.                *)
(***************************************************************************)
MaxBytes == 3
MaxItems == 2
MaxConversions == 2

\* types/errors.rs 10-16: IntegrationError, by variant
IntegrationError(variant, detail) == [k |-> variant, detail |-> detail]

\* Result::ok
result_ok(res) == IF res.ok THEN Some(res.v) ELSE None

\* rig::message::MimeType::to_mime_type for the media types used here
to_mime_type(media_type) ==
    CASE media_type = "HEIC" -> "image/heic"
      [] media_type = "SVG" -> "image/svg+xml"
      [] media_type = "RTF" -> "application/rtf"
      [] media_type = "XML" -> "application/xml"
      [] OTHER -> media_type

\* base64::alphabet::STANDARD: the character, as its byte, of a 6-bit value
encode_symbol(v) ==
    IF v < 26 THEN 65 + v                  \* 'A'..'Z'
    ELSE IF v < 52 THEN 71 + v             \* 'a'..'z'
    ELSE IF v < 62 THEN v - 4              \* '0'..'9'
    ELSE IF v = 62 THEN 43 ELSE 47         \* '+' and '/'

\* the engine's decode table: the 6-bit value of a byte, None where the
\* table holds INVALID_VALUE (the padding character '=' included)
decode_symbol(b) ==
    IF b \in 65..90 THEN Some(b - 65)
    ELSE IF b \in 97..122 THEN Some(b - 71)
    ELSE IF b \in 48..57 THEN Some(b + 4)
    ELSE IF b = 43 THEN Some(62)
    ELSE IF b = 47 THEN Some(63)
    ELSE None

\* BASE64_STANDARD.encode: three bytes to four characters, the last group
\* padded with '=' (61)
RECURSIVE base64_encode(_)
base64_encode(b) ==
    IF b = <<>> THEN <<>>
    ELSE IF Len(b) = 1
    THEN << encode_symbol(b[1] \div 4), encode_symbol((b[1] % 4) * 16), 61, 61 >>
    ELSE IF Len(b) = 2
    THEN << encode_symbol(b[1] \div 4),
            encode_symbol((b[1] % 4) * 16 + b[2] \div 16),
            encode_symbol((b[2] % 16) * 4), 61 >>
    ELSE << encode_symbol(b[1] \div 4),
            encode_symbol((b[1] % 4) * 16 + b[2] \div 16),
            encode_symbol((b[2] % 16) * 4 + b[3] \div 64),
            encode_symbol(b[3] % 64) >>
         \o base64_encode(SubSeq(b, 4, Len(b)))

\* base64::DecodeError's Display
DecodeErrorToString(e) ==
    CASE e.k = "InvalidByte" ->
            "Invalid symbol " \o ToString(e.byte) \o ", offset "
                \o ToString(e.offset) \o "."
      [] e.k = "InvalidLength" -> "Invalid input length: " \o ToString(e.len)
      [] e.k = "InvalidLastSymbol" ->
            "Invalid last symbol " \o ToString(e.byte) \o ", offset "
                \o ToString(e.offset) \o "."
      [] e.k = "InvalidPadding" -> "Invalid padding"

\* the bytes a sequence of 6-bit values spells: four values to three bytes,
\* two or three values at the end to one or two
RECURSIVE morsels_to_bytes(_)
morsels_to_bytes(m) ==
    IF Len(m) < 2 THEN <<>>
    ELSE IF Len(m) = 2 THEN << m[1] * 4 + m[2] \div 16 >>
    ELSE IF Len(m) = 3
    THEN << m[1] * 4 + m[2] \div 16, (m[2] % 16) * 16 + m[3] \div 4 >>
    ELSE << m[1] * 4 + m[2] \div 16, (m[2] % 16) * 16 + m[3] \div 4,
            (m[3] % 4) * 64 + m[4] >>
         \o morsels_to_bytes(SubSeq(m, 5, Len(m)))

\* the engine's decode loop, with index bytes of the input read, morsels
\* the 6-bit values of the characters read and first_padding the offset of
\* the first '=' read (-1 if none).  In the quads before the last any byte
\* outside the alphabet ('=' too) is an InvalidByte.  In the last quad '='
\* after fewer than two characters is an InvalidByte, a character after '='
\* an InvalidByte at the first '='.  At the end one character alone is an
\* InvalidLength, characters and padding that do not fill the quad an
\* InvalidPadding, left-over bits an InvalidLastSymbol.
RECURSIVE decode_helper(_, _, _, _)
decode_helper(input, index, morsels, first_padding) ==
    LET len == Len(input)
        complete_quads_len ==
            IF len % 4 # 0 THEN len - (len % 4)
            ELSE IF len = 0 THEN 0 ELSE len - 4
        b == input[index + 1]
        InvalidByte(offset, byte) ==
            Err([k |-> "InvalidByte", offset |-> offset, byte |-> byte])
        morsels_in_leftover == Len(morsels) - complete_quads_len
        padding_bytes_count == len - Len(morsels)
    IN  IF index = len
        THEN IF len # 0 /\ morsels_in_leftover < 2
             THEN Err([k |-> "InvalidLength", len |-> Len(morsels)])
             ELSE IF (padding_bytes_count + morsels_in_leftover) % 4 # 0
             THEN Err([k |-> "InvalidPadding"])
             ELSE IF \/ morsels_in_leftover = 2 /\ morsels[Len(morsels)] % 16 # 0
                     \/ morsels_in_leftover = 3 /\ morsels[Len(morsels)] % 4 # 0
             THEN Err([ k |-> "InvalidLastSymbol", offset |-> Len(morsels) - 1,
                        byte |-> input[Len(morsels)] ])
             ELSE Ok(morsels_to_bytes(morsels))
        ELSE IF b = 61 /\ index - complete_quads_len >= 2
        THEN decode_helper(input, index + 1, morsels,
                           IF first_padding < 0 THEN index ELSE first_padding)
        ELSE IF b = 61 THEN InvalidByte(index, b)
        ELSE IF first_padding >= 0 THEN InvalidByte(first_padding, 61)
        ELSE IF ~decode_symbol(b).some THEN InvalidByte(index, b)
        ELSE decode_helper(input, index + 1,
                           Append(morsels, decode_symbol(b).v), first_padding)

\* BASE64_STANDARD.decode over the bytes of the text (offsets from 0): a
\* single trailing byte outside the alphabet is reported first
base64_decode(t) ==
    IF Len(t) % 4 = 1 /\ t[Len(t)] # 61 /\ ~decode_symbol(t[Len(t)]).some
    THEN Err([k |-> "InvalidByte", offset |-> Len(t) - 1, byte |-> t[Len(t)]])
    ELSE decode_helper(t, 0, <<>>, -1)

\* aws_bedrock::ImageSource::Bytes / DocumentSource::Bytes
SourceBytes(blob) == [s |-> "Bytes", bytes |-> blob]

\* ImageBlock::builder() .. build(): format is required
ImageBlockBuild(format, source) ==
    IF format.some THEN Ok([format |-> format.v, source |-> source])
    ELSE Err([missing_field |-> "format"])

\* DocumentBlock::builder() .. build(): format and name are required
DocumentBlockBuild(format, name, source) ==
    IF ~format.some THEN Err([missing_field |-> "format"])
    ELSE IF ~name.some THEN Err([missing_field |-> "name"])
    ELSE Ok([format |-> format.v, name |-> name.v, source |-> source])

\* types/mod.rs 208-229
into_image(image) ==
    LET media_type ==
            CASE image.format = "gif" -> Ok("GIF")
              [] image.format = "jpeg" -> Ok("JPEG")
              [] image.format = "png" -> Ok("PNG")
              [] image.format = "webp" -> Ok("WEBP")
              [] OTHER -> Err(IntegrationError("UnsupportedFormat", image.format))
        data ==
            IF image.source.some /\ image.source.v.s = "Bytes"
            THEN Ok(base64_encode(image.source.v.bytes))
            ELSE Err(IntegrationError("ModelError", "Image source is missing"))
    IN  IF ~data.ok THEN data
        ELSE Ok([ data |-> data.v, format |-> Some("Base64"),
                  media_type |-> result_ok(media_type), detail |-> None ])

\* a variant of from_image that builds the block before it decodes the data
from_image_build_first(image) ==
    LET format ==
            CASE ~image.media_type.some -> None
              [] image.media_type.v = "JPEG" -> Some("jpeg")
              [] image.media_type.v = "PNG" -> Some("png")
              [] image.media_type.v = "GIF" -> Some("gif")
              [] image.media_type.v = "WEBP" -> Some("webp")
              [] OTHER -> None
        img_data == base64_decode(image.data)
    IN  IF ~format.some
        THEN Err(IntegrationError("BuildError", [missing_field |-> "format"]))
        ELSE IF ~img_data.ok
        THEN Err(IntegrationError("ConversionError",
                                  DecodeErrorToString(img_data.err)))
        ELSE ImageBlockBuild(format, Some(SourceBytes(img_data.v)))

\* types/mod.rs 231-253
from_image(image) ==
    LET matched ==
            CASE ~image.media_type.some -> None
              [] image.media_type.v = "JPEG" -> Some(Ok("jpeg"))
              [] image.media_type.v = "PNG" -> Some(Ok("png"))
              [] image.media_type.v = "GIF" -> Some(Ok("gif"))
              [] image.media_type.v = "WEBP" -> Some(Ok("webp"))
              [] OTHER -> Some(Err(IntegrationError("UnsupportedFormat",
                                       to_mime_type(image.media_type.v))))
        format == IF matched.some THEN result_ok(matched.v) ELSE None
        img_data == base64_decode(image.data)
    IN  IF ~img_data.ok
        THEN Err(IntegrationError("ConversionError",
                                  DecodeErrorToString(img_data.err)))
        ELSE LET result == ImageBlockBuild(format, Some(SourceBytes(img_data.v)))
             IN  IF result.ok THEN result
                 ELSE Err(IntegrationError("BuildError", result.err))

\* types/mod.rs 255-276
into_document(document) ==
    LET media_type ==
            CASE document.format = "csv" -> Ok("CSV")
              [] document.format = "html" -> Ok("HTML")
              [] document.format = "md" -> Ok("MARKDOWN")
              [] document.format = "pdf" -> Ok("PDF")
              [] document.format = "txt" -> Ok("TXT")
              [] OTHER -> Err(IntegrationError("UnsupportedFormat", document.format))
        data ==
            IF document.source.some /\ document.source.v.s = "Bytes"
            THEN Ok(base64_encode(document.source.v.bytes))
            ELSE Err(IntegrationError("ModelError", "Document source is missing"))
    IN  IF ~data.ok THEN data
        ELSE Ok([ data |-> data.v, format |-> Some("Base64"),
                  media_type |-> result_ok(media_type) ])

\* types/mod.rs 278-304: the builder is given a source and a format, no name
from_document(document) ==
    LET matched ==
            CASE ~document.media_type.some -> None
              [] document.media_type.v = "PDF" -> Some(Ok("pdf"))
              [] document.media_type.v = "TXT" -> Some(Ok("txt"))
              [] document.media_type.v = "HTML" -> Some(Ok("html"))
              [] document.media_type.v = "MARKDOWN" -> Some(Ok("md"))
              [] document.media_type.v = "CSV" -> Some(Ok("csv"))
              [] OTHER -> Some(Err(IntegrationError("UnsupportedFeature",
                                       to_mime_type(document.media_type.v))))
        format == IF matched.some THEN result_ok(matched.v) ELSE None
        document_data == base64_decode(document.data)
    IN  IF ~document_data.ok
        THEN Err(IntegrationError("ConversionError",
                                  DecodeErrorToString(document_data.err)))
        ELSE LET result == DocumentBlockBuild(format, None,
                                              Some(SourceBytes(document_data.v)))
             IN  IF result.ok THEN result
                 ELSE Err(IntegrationError("BuildError", result.err))

\* rig::OneOrMany::many: an error on an empty iterator
OneOrMany_many(items) == IF items = <<>> THEN Err("EmptyListError") ELSE Ok(items)

\* ToolResultBlock::builder() .. build(): tool_use_id and content are required
ToolResultBlockBuild(tool_use_id, content) ==
    IF tool_use_id.some /\ content.some
    THEN Ok([tool_use_id |-> tool_use_id.v, content |-> content.v, status |-> None])
    ELSE Err([missing_field |-> IF tool_use_id.some THEN "content" ELSE "tool_use_id"])

\* ToolUseBlock::builder() .. build(): tool_use_id, name and input are required
ToolUseBlockBuild(tool_use_id, name, input) ==
    IF tool_use_id.some /\ name.some /\ input.some
    THEN Ok(BlockToolUse(name.v, tool_use_id.v, input.v))
    ELSE Err([missing_field |-> "tool_use_id, name or input"])

\* types/mod.rs 196-206
from_tool_result(tool_result_content) ==
    IF tool_result_content.r = "Text"
    THEN Ok([tb |-> "Text", text |-> tool_result_content.text])
    ELSE LET image == from_image(tool_result_content.image)
         IN  IF image.ok THEN Ok([tb |-> "Image", image |-> image.v]) ELSE image

\* types/mod.rs 176-194; the text of a Json block is the JSON text of its
\* document_to_json, held as the value the text denotes
into_tool_result(tool_result_content_block) ==
    CASE tool_result_content_block.tb = "Image" ->
            LET image == into_image(tool_result_content_block.image)
            IN  IF image.ok THEN Ok([r |-> "Image", image |-> image.v]) ELSE image
      [] tool_result_content_block.tb = "Json" ->
            Ok([r |-> "Text",
                text |-> [json_text |->
                             document_to_json(tool_result_content_block.document)]])
      [] tool_result_content_block.tb = "Text" ->
            Ok([r |-> "Text", text |-> tool_result_content_block.text])
      [] OTHER ->
            Err(IntegrationError("UnsupportedFeature",
                    "ToolResultContentBlock contains unsupported variant"))

\* types/mod.rs 17-46
from_user_content(content) ==
    CASE content.u = "Text" -> Ok(BlockText(content.text))
      [] content.u = "ToolResult" ->
            LET items == [j \in 1..Len(content.content) |->
                             from_tool_result(content.content[j])]
                builder == ToolResultBlockBuild(Some(content.id),
                                                Some(CollectOk(items)))
            IN  IF builder.ok
                THEN Ok([b |-> "ToolResult", tool_result |-> builder.v])
                ELSE Err(IntegrationError("BuildError", builder.err))
      [] content.u = "Image" ->
            LET image == from_image(content.image)
            IN  IF image.ok THEN Ok([b |-> "Image", image |-> image.v]) ELSE image
      [] content.u = "Document" ->
            LET doc == from_document(content.document)
            IN  IF doc.ok THEN Ok([b |-> "Document", document |-> doc.v]) ELSE doc
      [] content.u = "Audio" ->
            Err(IntegrationError("UnsupportedFeature", "Audio"))

\* types/mod.rs 48-62
from_assistent_content(content) ==
    IF content.a = "Text" THEN Ok(BlockText(content.text))
    ELSE LET built == ToolUseBlockBuild(
                          Some(content.id), Some(content.function.name),
                          Some(json_to_document(content.function.arguments)))
         IN  IF built.ok THEN built
             ELSE Err(IntegrationError("BuildError", built.err))

\* types/mod.rs 64-88
from_message(message) ==
    LET blocks ==
            [j \in 1..Len(message.content) |->
                IF message.role = "User"
                THEN from_user_content(message.content[j])
                ELSE from_assistent_content(message.content[j])]
        result ==
            MessageBuild(IF message.role = "User" THEN RoleUser ELSE RoleAssistant,
                         CollectOk(blocks))
    IN  IF result.ok THEN result
        ELSE Err(IntegrationError("BuildError", result.err))

\* a variant of into_assistent_content that has an arm for image blocks
into_assistent_content_with_image(content_block) ==
    CASE content_block.b = "Text" -> Ok([a |-> "Text", text |-> content_block.text])
      [] content_block.b = "ToolUse" ->
            Ok([ a |-> "ToolCall", id |-> content_block.tool_use_id,
                 function |->
                     [ name |-> content_block.name,
                       arguments |-> document_to_json(content_block.input) ] ])
      [] content_block.b = "Image" ->
            Ok([a |-> "Image", image |-> content_block.image])
      [] OTHER ->
            Err(IntegrationError("UnsupportedFeature",
                    "AWS Bedrock returned unsupported ContentBlock"))

\* types/mod.rs 122-140
into_assistent_content(content_block) ==
    CASE content_block.b = "Text" -> Ok([a |-> "Text", text |-> content_block.text])
      [] content_block.b = "ToolUse" ->
            Ok([ a |-> "ToolCall", id |-> content_block.tool_use_id,
                 function |->
                     [ name |-> content_block.name,
                       arguments |-> document_to_json(content_block.input) ] ])
      [] OTHER ->
            Err(IntegrationError("UnsupportedFeature",
                    "AWS Bedrock returned unsupported ContentBlock"))

\* types/mod.rs 142-174
into_user_content(content_block) ==
    CASE content_block.b = "Text" -> Ok([u |-> "Text", text |-> content_block.text])
      [] content_block.b = "ToolResult" ->
            LET tool_result == content_block.tool_result
                items == [j \in 1..Len(tool_result.content) |->
                             into_tool_result(tool_result.content[j])]
                tool_results == OneOrMany_many(CollectOk(items))
            IN  IF tool_results.ok
                THEN Ok([ u |-> "ToolResult", id |-> tool_result.tool_use_id,
                          content |-> tool_results.v ])
                ELSE Err(IntegrationError("UnsupportedFeature",
                             "ToolResult returned invalid response"))
      [] content_block.b = "Document" ->
            LET doc == into_document(content_block.document)
            IN  IF doc.ok THEN Ok([u |-> "Document", document |-> doc.v]) ELSE doc
      [] content_block.b = "Image" ->
            LET image == into_image(content_block.image)
            IN  IF image.ok THEN Ok([u |-> "Image", image |-> image.v]) ELSE image
      [] OTHER ->
            Err(IntegrationError("UnsupportedFeature",
                    "ToolResultContentBlock contains unsupported variant"))

\* a variant of into_message that reads every role but Assistant as User
into_message_default_user(message) ==
    LET items == [j \in 1..Len(message.content) |->
                     IF message.role = RoleAssistant
                     THEN into_assistent_content(message.content[j])
                     ELSE into_user_content(message.content[j])]
        content == OneOrMany_many(CollectOk(items))
    IN  IF content.ok
        THEN Ok([ role |-> IF message.role = RoleAssistant THEN "Assistant" ELSE "User",
                  content |-> content.v ])
        ELSE Err(IntegrationError("UnsupportedFeature",
                     "Message returned invalid response"))

\* types/mod.rs 90-120
into_message(message) ==
    IF message.role \notin {RoleAssistant, RoleUser}
    THEN Err(IntegrationError("UnsupportedFeature",
                 "AWS Bedrock returned unsupported ConversationRole"))
    ELSE LET items == [j \in 1..Len(message.content) |->
                          IF message.role = RoleAssistant
                          THEN into_assistent_content(message.content[j])
                          ELSE into_user_content(message.content[j])]
             content == OneOrMany_many(CollectOk(items))
         IN  IF content.ok
             THEN Ok([ role |-> IF message.role = RoleAssistant
                                THEN "Assistant" ELSE "User",
                       content |-> content.v ])
             ELSE Err(IntegrationError("UnsupportedFeature",
                          "Message returned invalid response"))

-----------------------------------------------------------------------------
(***************************************************************************)
(* The values the conversions are started from.                            *)
(***************************************************************************)
Payloads == UNION { [1..n -> {0, 77, 255}] : n \in 0..MaxBytes }

\* texts BASE64_STANDARD rejects: "!AAA" (a character outside the alphabet),
\* "A" and "AAA" (a length that is no multiple of four), "AB==" and "AAB="
\* (left-over bits), "A===", "AA=A" and "AQ==AAAA" (misplaced padding)
InvalidBase64 ==
    { <<33, 65, 65, 65>>, <<65>>, <<65, 65, 65>>, <<65, 66, 61, 61>>,
      <<65, 65, 66, 61>>, <<65, 61, 61, 61>>, <<65, 65, 61, 65>>,
      <<65, 81, 61, 61, 65, 65, 65, 65>> }
Base64Texts == { base64_encode(b) : b \in Payloads } \cup InvalidBase64

\* rig::message::Image and Document; HEIC and RTF are media types of the
\* framework that the provider does not have
Images ==
    { [data |-> d, format |-> Some("Base64"), media_type |-> mt, detail |-> None] :
        d \in Base64Texts,
        mt \in {None} \cup { Some(x) : x \in {"JPEG", "PNG", "GIF", "WEBP", "HEIC"} } }
Documents ==
    { [data |-> d, format |-> Some("Base64"), media_type |-> mt] :
        d \in Base64Texts,
        mt \in {None} \cup { Some(x) : x \in {"PDF", "TXT", "HTML", "MARKDOWN", "CSV", "RTF"} } }

\* aws_bedrock::ImageBlock and DocumentBlock; "bmp" is a format the SDK reads
\* as Unknown, "docx" a DocumentFormat of the SDK
BlockSources ==
    {None, Some([s |-> "Unknown"])} \cup { Some(SourceBytes(b)) : b \in Payloads }
ImageBlocks ==
    { [format |-> f, source |-> src] :
        f \in {"gif", "jpeg", "png", "webp", "bmp"}, src \in BlockSources }
DocumentBlocks ==
    { [format |-> f, name |-> "doc", source |-> src] :
        f \in {"csv", "html", "md", "pdf", "txt", "docx"}, src \in BlockSources }

PngImage ==
    [ data |-> base64_encode(<<77>>), format |-> Some("Base64"),
      media_type |-> Some("PNG"), detail |-> None ]
HeicImage == [PngImage EXCEPT !.media_type = Some("HEIC")]
PdfDocument ==
    [ data |-> base64_encode(<<77, 255>>), format |-> Some("Base64"),
      media_type |-> Some("PDF") ]
PngBlock == [format |-> "png", source |-> Some(SourceBytes(<<77>>))]
PdfBlock == [format |-> "pdf", name |-> "doc", source |-> Some(SourceBytes(<<77, 255>>))]

\* rig::message::ToolResultContent, UserContent, AssistantContent
ToolResultContents ==
    { [r |-> "Text", text |-> <<"ok">>], [r |-> "Image", image |-> PngImage],
      [r |-> "Image", image |-> HeicImage] }
UserContents ==
    { [u |-> "Text", text |-> <<"hi">>],
      [u |-> "Image", image |-> PngImage],
      [u |-> "Image", image |-> HeicImage],
      [u |-> "Document", document |-> PdfDocument],
      [u |-> "ToolResult", id |-> "call_1",
         content |-> << [r |-> "Text", text |-> <<"ok">>] >>],
      [u |-> "ToolResult", id |-> "call_1",
         content |-> << [r |-> "Image", image |-> PngImage] >>],
      [u |-> "Audio"] }
AssistantContents ==
    { [a |-> "Text", text |-> <<"hi">>],
      [a |-> "ToolCall", id |-> "call_1",
         function |-> [ name |-> "add",
                        arguments |-> JObject([key \in {"x"} |-> JNumber(PosInt(One64))]) ]],
      [a |-> "ToolCall", id |-> "call_2",
         function |-> [ name |-> "big",
                        arguments |-> JNumber(PosInt(W(SignLimb, 0, 0))) ]] }
Messages ==
    UNION { { [role |-> "User", content |-> c] : c \in [1..n -> UserContents] }
            \cup { [role |-> "Assistant", content |-> c] :
                      c \in [1..n -> AssistantContents] } : n \in 1..MaxItems }

\* aws_bedrock::ToolResultContentBlock, ContentBlock, Message; Video and
\* GuardContent are variants of the SDK that no conversion names
ToolResultContentBlocks ==
    { [tb |-> "Text", text |-> <<"ok">>], [tb |-> "Image", image |-> PngBlock],
      [tb |-> "Json", document |-> DObject(<<>>)], [tb |-> "Video"],
      [tb |-> "Document"] }
ToolResultBlocks ==
    { [tool_use_id |-> "call_1", content |-> c, status |-> None] :
        c \in { <<>>, << [tb |-> "Text", text |-> <<"ok">>] >>,
                << [tb |-> "Video"] >>,
                << [tb |-> "Video"], [tb |-> "Json", document |-> DObject(<<>>)] >> } }
ContentBlocks ==
    { BlockText(<<"hi">>), ToolUseA,
      [b |-> "Image", image |-> PngBlock],
      [b |-> "Image", image |-> [format |-> "png", source |-> None]],
      [b |-> "Document", document |-> PdfBlock],
      [b |-> "Video"], [b |-> "GuardContent"] }
    \cup { [b |-> "ToolResult", tool_result |-> tr] : tr \in ToolResultBlocks }
AwsMessages ==
    { [role |-> ro, content |-> c] :
        ro \in {RoleUser, RoleAssistant, RoleUnknown("system")},
        c \in UNION { [1..n -> ContentBlocks] : n \in 0..MaxItems } }

InitMapper ==
    /\ IdleCodec
    /\ IdleCompletion
    /\ IdleEmbedding
    /\ \E input \in
            { <<"Image", x>> : x \in Images }
            \cup { <<"ImageBlock", x>> : x \in ImageBlocks }
            \cup { <<"Document", x>> : x \in Documents }
            \cup { <<"DocumentBlock", x>> : x \in DocumentBlocks }
            \cup { <<"ToolResultContent", x>> : x \in ToolResultContents }
            \cup { <<"ToolResultContentBlock", x>> : x \in ToolResultContentBlocks }
            \cup { <<"UserContent", x>> : x \in UserContents }
            \cup { <<"AssistantContent", x>> : x \in AssistantContents }
            \cup { <<"ContentBlock", x>> : x \in ContentBlocks }
            \cup { <<"Message", x>> : x \in Messages }
            \cup { <<"AwsMessage", x>> : x \in AwsMessages } :
          /\ mkind = input[1]
          /\ morig = input[2]
          /\ mval = Ok(input[2])
    /\ mtrace = <<>>

\* one conversion: the value held, being an Ok, is replaced by the
\* conversion's result, of type `to` if Ok
Converted(op, to, result) ==
    /\ mval.ok
    /\ Len(mtrace) < MaxConversions
    /\ mval' = result
    /\ mkind' = to
    /\ mtrace' = Append(mtrace, op)
    /\ UNCHANGED <<morig, notMapper>>

FromImage ==
    /\ mkind = "Image"
    /\ Converted("from_image", "ImageBlock", from_image(mval.v))

IntoImage ==
    /\ mkind = "ImageBlock"
    /\ Converted("into_image", "Image", into_image(mval.v))

FromDocument ==
    /\ mkind = "Document"
    /\ Converted("from_document", "DocumentBlock", from_document(mval.v))

IntoDocument ==
    /\ mkind = "DocumentBlock"
    /\ Converted("into_document", "Document", into_document(mval.v))

FromToolResult ==
    /\ mkind = "ToolResultContent"
    /\ Converted("from_tool_result", "ToolResultContentBlock",
                 from_tool_result(mval.v))

IntoToolResult ==
    /\ mkind = "ToolResultContentBlock"
    /\ Converted("into_tool_result", "ToolResultContent", into_tool_result(mval.v))

FromUserContent ==
    /\ mkind = "UserContent"
    /\ Converted("from_user_content", "ContentBlock", from_user_content(mval.v))

FromAssistentContent ==
    /\ mkind = "AssistantContent"
    /\ Converted("from_assistent_content", "ContentBlock",
                 from_assistent_content(mval.v))

IntoUserContent ==
    /\ mkind = "ContentBlock"
    /\ Converted("into_user_content", "UserContent", into_user_content(mval.v))

IntoAssistentContent ==
    /\ mkind = "ContentBlock"
    /\ Converted("into_assistent_content", "AssistantContent",
                 into_assistent_content(mval.v))

FromMessage ==
    /\ mkind = "Message"
    /\ Converted("from_message", "AwsMessage", from_message(mval.v))

IntoMessage ==
    /\ mkind = "AwsMessage"
    /\ Converted("into_message", "Message", into_message(mval.v))

NextMapper ==
    \/ FromImage
    \/ IntoImage
    \/ FromDocument
    \/ IntoDocument
    \/ FromToolResult
    \/ IntoToolResult
    \/ FromUserContent
    \/ FromAssistentContent
    \/ IntoUserContent
    \/ IntoAssistentContent
    \/ FromMessage
    \/ IntoMessage

SpecMapper == InitMapper /\ [][NextMapper]_vars

Init == InitCodec \/ InitCompletion \/ InitEmbedding \/ InitMapper

Next == NextCodec \/ NextCompletion \/ NextEmbedding \/ NextMapper

Spec == Init /\ [][Next]_vars

-----------------------------------------------------------------------------
(***************************************************************************)
(* Embedding Adapter: properties                                           *)
(***************************************************************************)
\* the invocation made for a document succeeded: the service answered with a
\* body that decodes to an embedding
InvocationSucceeded(model_response) ==
    /\ model_response.ok
    /\ from_utf8(model_response.v.body.bytes).ok
    /\ model_response.v.body.from_str.ok

FailedInvocations == { j \in 1..Len(ereplies) : ~InvocationSucceeded(ereplies[j]) }
FirstFailed == CHOOSE j \in FailedInvocations : \A i \in FailedInvocations : j <= i

\* C7: embed_texts returns Ok(results) if and only if the invocation of
\* every document succeeds; if any fails it returns a single error
\* carrying the text of the error of the first failing document in input
\* order, and no embedding.
C7_AllOrNothing ==
    (epc = "done") =>
        /\ Len(ereplies) = Len(edocs)
        /\ eout.ok <=> (FailedInvocations = {})
        /\ (FailedInvocations # {}) =>
              eout = Err(EmbeddingResponseError(EmbeddingErrorToString(
                        embedding_response(ereplies[FirstFailed]).err)))

\* C7 witness: of three documents the first embedded, the second and the
\* third failed with different errors, and the error of the second was
\* returned
C7_SecondOfThreeFailed ==
    /\ epc = "done"
    /\ Len(edocs) = 3
    /\ FailedInvocations = {2, 3}
    /\ ereplies[2] = Ok([body |-> BodyNotUtf8])
    /\ ereplies[3] = Ok([body |-> BodyNotJson])
    /\ eout = Err(EmbeddingResponseError(
                    <<"ResponseError", ": ",
                      "invalid utf-8 sequence of 1 bytes from index 0">>))

\* C8: once the invocation of some document has failed, embed_texts issues
\* no invocation for a later document of the batch.
C8_FailureAbortsBatch ==
    (FailedInvocations # {}) => Len(einvoked) = FirstFailed

\* C9: when every document embeds, embed_texts returns one embedding per
\* document, in input order, the i-th echoing the i-th text and carrying
\* the vector returned by the invocation made for that text.
C9_ResultsInInputOrder ==
    (epc = "done" /\ FailedInvocations = {}) =>
        /\ eout.ok
        /\ Len(eout.v) = Len(edocs)
        /\ \A j \in 1..Len(edocs) :
              /\ einvoked[j].body.json_text.o["inputText"] = JString(edocs[j])
              /\ eout.v[j].document = edocs[j]
              /\ eout.v[j].vec = ereplies[j].v.body.from_str.v.embedding

\* C9 witness: three documents embedded, with different vectors
C9_ThreeEmbedded ==
    /\ epc = "done"
    /\ edocs = <<"aa", "bb", "aa">>
    /\ eout.ok
    /\ eout.v = << [document |-> "aa", vec |-> <<OneAndHalf>>],
                   [document |-> "bb", vec |-> <<MinusHalf, OnePointZero>>],
                   [document |-> "aa", vec |-> <<MinusHalf, OnePointZero>>] >>


-----------------------------------------------------------------------------
(***************************************************************************)
(* Content Mapper: properties                                              *)
(***************************************************************************)
ImageFormats == {"gif", "jpeg", "png", "webp"}
DocumentFormats == {"csv", "html", "md", "pdf", "txt"}
ImageMediaTypes == {"GIF", "JPEG", "PNG", "WEBP"}
DocumentMediaTypes == {"CSV", "HTML", "MARKDOWN", "PDF", "TXT"}

\* the provider block the conversions started from has a byte payload
HasBytes(block) == block.source.some /\ block.source.v.s = "Bytes"

\* C16: for every byte payload and every supported format, a provider image
\* (document) block converted by into_image (into_document) and back by
\* from_image (from_document) is a block with the original bytes and the
\* original format.
\* Violated by the code: from_document gives the builder no name, so it
\* fails for every document; the image half holds.
C16_PayloadRoundTrip ==
    /\ (mtrace # <<>> /\ mtrace[1] = "into_image"
            /\ morig.format \in ImageFormats /\ HasBytes(morig)) =>
          /\ mval.ok
          /\ mtrace = <<"into_image", "from_image">> =>
                (mval.v.format = morig.format /\ mval.v.source = morig.source)
    /\ (mtrace # <<>> /\ mtrace[1] = "into_document"
            /\ morig.format \in DocumentFormats /\ HasBytes(morig)) =>
          /\ mval.ok
          /\ mtrace = <<"into_document", "from_document">> =>
                (mval.v.format = morig.format /\ mval.v.source = morig.source)

\* C17: converting an image or a document whose media type is outside the
\* enumerated set fails with unsupported-format carrying the format's name,
\* in both directions.
\* Violated by the code: from_image and from_document drop the error and
\* fail in build() (or on the data); into_image and into_document succeed
\* with no media type.
C17_UnsupportedFormatFails ==
    /\ (mtrace \in {<<"into_image">>, <<"into_document">>}
            /\ morig.format \notin (IF mtrace[1] = "into_image"
                                    THEN ImageFormats ELSE DocumentFormats)) =>
          mval = Err(IntegrationError("UnsupportedFormat", morig.format))
    /\ (mtrace \in {<<"from_image">>, <<"from_document">>}
            /\ morig.media_type.some
            /\ morig.media_type.v \notin (IF mtrace[1] = "from_image"
                                         THEN ImageMediaTypes
                                         ELSE DocumentMediaTypes)) =>
          mval = Err(IntegrationError("UnsupportedFormat",
                                      to_mime_type(morig.media_type.v)))

\* C18: from_image and from_document fail with a conversion-error whenever
\* the data is not valid base64, whatever the media type.
C18_InvalidBase64IsConversionError ==
    (mtrace \in {<<"from_image">>, <<"from_document">>}
        /\ morig.data \in InvalidBase64) =>
      (~mval.ok /\ mval.err.k = "ConversionError")

\* C18 witness: an image of a media type the provider does not have, with a
\* character outside the alphabet in its data, failed with a conversion-error
C18_BadHeicImageFailed ==
    /\ mtrace = <<"from_image">>
    /\ morig.media_type = Some("HEIC")
    /\ morig.data = <<33, 65, 65, 65>>
    /\ mval = Err(IntegrationError("ConversionError",
                                   "Invalid symbol 33, offset 0."))

\* a framework message of the supported kinds: a User message of Text,
\* Image, Document and ToolResult (of Text and Image) items, or an Assistant
\* message of Text and ToolCall items, every media type being one the
\* provider has
SupportedImage(image) ==
    image.media_type.some /\ image.media_type.v \in ImageMediaTypes
SupportedItem(item) ==
    IF "a" \in DOMAIN item THEN TRUE
    ELSE CASE item.u = "Text" -> TRUE
           [] item.u = "Image" -> SupportedImage(item.image)
           [] item.u = "Document" ->
                item.document.media_type.some
                    /\ item.document.media_type.v \in DocumentMediaTypes
           [] item.u = "ToolResult" ->
                \A j \in 1..Len(item.content) :
                    item.content[j].r = "Image" =>
                        SupportedImage(item.content[j].image)
           [] OTHER -> FALSE
SupportedMessage(message) ==
    \A j \in 1..Len(message.content) : SupportedItem(message.content[j])

\* C19: for every supported framework message m,
\* into_message(from_message(m)) = m.
\* Violated by the code: a Document item is lost (from_document fails and
\* the item is filtered out), and a tool call's integer argument above
\* i64::MAX comes back as a float.
C19_MessageRoundTrip ==
    (mtrace # <<>> /\ mtrace[1] = "from_message" /\ SupportedMessage(morig)) =>
        /\ mval.ok
        /\ mtrace = <<"from_message", "into_message">> => mval.v = morig

\* C20: from_user_content on an Audio item fails with unsupported-feature
\* naming "Audio"; into_assistent_content, into_user_content and
\* into_tool_result on a block outside the variants they match fail with
\* unsupported-feature; into_message on a role that is neither User nor
\* Assistant fails with unsupported-feature, whatever the content.
C20_UnsupportedIsUnsupportedFeature ==
    /\ (mtrace = <<"from_user_content">> /\ morig.u = "Audio") =>
          mval = Err(IntegrationError("UnsupportedFeature", "Audio"))
    /\ (mtrace = <<"into_assistent_content">>
            /\ morig.b \notin {"Text", "ToolUse"}) =>
          (~mval.ok /\ mval.err.k = "UnsupportedFeature")
    /\ (mtrace = <<"into_user_content">>
            /\ morig.b \notin {"Text", "ToolResult", "Document", "Image"}) =>
          (~mval.ok /\ mval.err.k = "UnsupportedFeature")
    /\ (mtrace = <<"into_tool_result">>
            /\ morig.tb \notin {"Image", "Json", "Text"}) =>
          (~mval.ok /\ mval.err.k = "UnsupportedFeature")
    /\ (mtrace = <<"into_message">>
            /\ morig.role \notin {RoleUser, RoleAssistant}) =>
          (~mval.ok /\ mval.err.k = "UnsupportedFeature")

\* C20 witness: a provider message of role "system" holding a text block
\* failed with unsupported-feature
C20_UnknownRoleFailed ==
    /\ mtrace = <<"into_message">>
    /\ morig = [role |-> RoleUnknown("system"), content |-> <<BlockText(<<"hi">>)>>]
    /\ mval = Err(IntegrationError("UnsupportedFeature",
                     "AWS Bedrock returned unsupported ConversationRole"))

\* a provider message of role Assistant holding an image block has been
\* given to into_message
AssistantWithImage ==
    /\ mtrace = <<"into_message">>
    /\ morig.role = RoleAssistant
    /\ \E j \in 1..Len(morig.content) : morig.content[j].b = "Image"

\* C21: converting a provider message of role Assistant that holds an image
\* block is reported as a failure of the conversion.
\* Not so in the code: with a text or tool-use block beside it the image
\* block is dropped and the conversion succeeds.
C21_AssistantImageFails ==
    AssistantWithImage => ~mval.ok

\* C21 as amended: an image block never becomes an item of an Assistant
\* message: into_assistent_content fails on it with unsupported-feature, and
\* into_message drops it, returning the Assistant message of the text and
\* tool-use blocks, and failing (unsupported-feature) only when there is
\* none.
C21_AssistantImageDropped ==
    /\ (mtrace = <<"into_assistent_content">> /\ morig.b = "Image") =>
          (~mval.ok /\ mval.err.k = "UnsupportedFeature")
    /\ AssistantWithImage =>
          LET kept == { j \in 1..Len(morig.content) :
                          morig.content[j].b \in {"Text", "ToolUse"} }
          IN  /\ mval.ok <=> kept # {}
              /\ ~mval.ok => mval.err.k = "UnsupportedFeature"
              /\ mval.ok =>
                    /\ mval.v.role = "Assistant"
                    /\ Len(mval.v.content) = Cardinality(kept)
                    /\ \A i \in 1..Len(mval.v.content) :
                          mval.v.content[i].a \in {"Text", "ToolCall"}

\* C21 witness: an Assistant message of a text block and an image block
\* came back as the Assistant message of the text alone
C21_ImageDroppedBesideText ==
    /\ mtrace = <<"into_message">>
    /\ morig = [ role |-> RoleAssistant,
                 content |-> << BlockText(<<"hi">>),
                                [b |-> "Image", image |-> PngBlock] >> ]
    /\ mval = Ok([ role |-> "Assistant",
                   content |-> << [a |-> "Text", text |-> <<"hi">>] >> ])

\* the per-item conversions from_message and into_message make
ItemsFrom(message) ==
    [j \in 1..Len(message.content) |->
        IF message.role = "User" THEN from_user_content(message.content[j])
        ELSE from_assistent_content(message.content[j])]
ItemsInto(message) ==
    [j \in 1..Len(message.content) |->
        IF message.role = RoleAssistant
        THEN into_assistent_content(message.content[j])
        ELSE into_user_content(message.content[j])]

\* content is the values of the Ok results, in the order of the results
KeptInOrder(results, content) ==
    LET kept == { j \in 1..Len(results) : results[j].ok }
    IN  /\ Len(content) = Cardinality(kept)
        /\ \A j \in kept :
              content[Cardinality({ i \in kept : i <= j })] = results[j].v

\* C22: from_message and into_message drop every item whose conversion
\* fails and keep the others in order; the conversion fails only on an
\* unsupported role, never because items were dropped.
\* Not so in the code: into_message fails when every item was dropped.
C22_DropNeverFails ==
    /\ mtrace = <<"from_message">> =>
          (mval.ok /\ KeptInOrder(ItemsFrom(morig), mval.v.content))
    /\ (mtrace = <<"into_message">> /\ morig.content # <<>>) =>
          /\ mval.ok <=> morig.role \in {RoleUser, RoleAssistant}
          /\ mval.ok => KeptInOrder(ItemsInto(morig), mval.v.content)

\* C22 as amended: both drop every item whose conversion fails and keep
\* the others in order; from_message never fails; into_message fails, with
\* unsupported-feature, exactly when the role is neither User nor Assistant
\* or no item is left.
C22_DropKeepsOrder ==
    /\ mtrace = <<"from_message">> =>
          (mval.ok /\ KeptInOrder(ItemsFrom(morig), mval.v.content))
    /\ mtrace = <<"into_message">> =>
          /\ mval.ok <=>
                /\ morig.role \in {RoleUser, RoleAssistant}
                /\ \E j \in 1..Len(morig.content) : ItemsInto(morig)[j].ok
          /\ mval.ok => KeptInOrder(ItemsInto(morig), mval.v.content)
          /\ ~mval.ok => mval.err.k = "UnsupportedFeature"

\* C22 witness: a User message of a video block and a text block came back
\* as the User message of the text alone
C22_VideoDroppedBeforeText ==
    /\ mtrace = <<"into_message">>
    /\ morig = [ role |-> RoleUser,
                 content |-> << [b |-> "Video"], BlockText(<<"hi">>) >> ]
    /\ mval = Ok([ role |-> "User",
                   content |-> << [u |-> "Text", text |-> <<"hi">>] >> ])

\* C23: a message returned by from_message or by into_message holds at
\* least one content item.
\* Violated by the code: from_message returns a provider message with an
\* empty content list when every item was dropped.
C23_ContentNeverEmpty ==
    (mtrace \in {<<"from_message">>, <<"into_message">>} /\ mval.ok) =>
        mval.v.content # <<>>

\* C24: within one embed_texts call the invocation of document i+1 is
\* issued only after that of document i has completed: invocations are
\* issued in input order, one per document, at most one is outstanding (and
\* one is exactly while the call awaits), and at the return their number is
\* the number of documents.
C24_SequentialInvocations ==
    /\ Len(einvoked) - Len(ereplies) \in {0, 1}
    /\ (epc = "waiting") <=> (Len(einvoked) = Len(ereplies) + 1)
    /\ Len(einvoked) <= Len(edocs)
    /\ \A j \in 1..Len(einvoked) :
          einvoked[j] =
              InvokeModelRequest(
                  [ json_text |->
                      JObject([key \in {"inputText", "dimensions", "normalize"} |->
                          CASE key = "inputText" -> JString(edocs[j])
                            [] key = "dimensions" -> JNumber(PosInt(W(0, 0, Ndims)))
                            [] key = "normalize" -> JBool(TRUE)]) ])
    /\ (epc = "done") =>
          (Len(einvoked) = Len(edocs) /\ Len(ereplies) = Len(edocs))

\* C24 witness: the call awaits the third of three invocations, the first
\* two having completed
C24_ThirdOutstanding ==
    /\ epc = "waiting"
    /\ Len(edocs) = 3
    /\ Len(einvoked) = 3
    /\ Len(ereplies) = 2

=============================================================================
